---- MODULE Spec2Model ----
(***************************************************************************)
(* Model of the task-management API: the Task/User/TaskList entities, the  *)
(* domain and validation services, the use cases and the SQLAlchemy        *)
(* repositories they persist through.                                      *)
(*                                                                         *)
(* Services and use cases are composed the way their constructors name     *)
(* their collaborators (a service's _user_repository is a UserRepository). *)
(* Time is counted in ticks of 1/TicksPerDay of a day.                     *)
(***************************************************************************)
EXTENDS Integers, Sequences, FiniteSets, TLC

VARIABLES
    now,         \* the wall clock read by datetime.now(timezone.utc)
    task,        \* a Task entity held in memory by a caller
    users,       \* table "users":      stored id -> row
    task_lists,  \* table "task_lists": stored id -> row
    tasks,       \* table "tasks":      stored id -> row
    call,        \* the operation last invoked, with its arguments
    outcome,     \* how that call ended: Ok(value) or Raise(exception, argument)
    invoked,     \* the repository methods that call invoked, in order
    requests     \* use cases suspended at an await: request id -> what it holds

vars == <<now, task, users, task_lists, tasks, call, outcome, invoked, requests>>

(***************************************************************************)
(* Bounds of the model.                                                    *)
(***************************************************************************)
TicksPerDay == 2          \* clock resolution
EntityHorizon == 2        \* last instant of the clock while an entity is exercised
DueHorizon == 2           \* last instant of the clock while due dates are exercised
MaxPage == 2              \* largest page number and page size asked for
OverLimit == 1            \* most rows a stored table holds beyond a query's default limit

(***************************************************************************)
(* Values.                                                                 *)
(***************************************************************************)
None == "None"            \* Optional[UUID] / Optional[str] = None
NoTime == -1              \* Optional[datetime] = None
NoResult == "NoResult"
NoneStr == <<None>>       \* Optional[str] = None, where the str is modelled by its characters

\* How a call ends: it returns a value or raises an exception.
Ok(v) == [exc |-> "ok", value |-> v]
Raise(e, a) == [exc |-> e, arg |-> a]

\* A result may carry, as field calls, the repository methods that were
\* invoked to produce it.
Calls(r) == IF "calls" \in DOMAIN r THEN r.calls ELSE <<>>

\* the result r of one repository method
Invoke(repo, method, args, r) ==
    [calls |-> <<[repo |-> repo, method |-> method, args |-> args,
                  exc |-> r.exc]>>] @@ r

\* the result r of code that ran after the code that gave first
After(first, r) == [calls |-> Calls(first) \o Calls(r)] @@ r

PENDING == "pending"
IN_PROGRESS == "in_progress"
COMPLETED == "completed"
TaskStatus == {PENDING, IN_PROGRESS, COMPLETED}

LOW == "low"
MEDIUM == "medium"
HIGH == "high"
CRITICAL == "critical"
TaskPriority == {LOW, MEDIUM, HIGH, CRITICAL}

UserIds == {"u1", "u2"}
ListIds == {"l1", "l2"}
TaskIds == {"t1", "t2"}
Titles == {"a", "b"}

(***************************************************************************)
(* Task entity (app/domain/models/task.py).                                *)
(***************************************************************************)
\* Task(id=..., title=..., task_list_id=..., due_date=...) with the field defaults
NewTask(id, title, task_list_id, due_date) ==
    [id |-> id, title |-> title, description |-> None, status |-> PENDING,
     priority |-> MEDIUM, task_list_id |-> task_list_id,
     assigned_user_id |-> None, created_at |-> now, updated_at |-> now,
     due_date |-> due_date, completed_at |-> NoTime]

mark_as_in_progress(self) ==
    [self EXCEPT !.status = IN_PROGRESS, !.updated_at = now,
                 !.completed_at = NoTime]

\* mutant: the completion timestamp is not recorded
mark_as_completed_no_timestamp(self) ==
    [self EXCEPT !.status = COMPLETED, !.updated_at = now]

mark_as_completed(self) ==
    [self EXCEPT !.status = COMPLETED, !.updated_at = now,
                 !.completed_at = now]

\* mutant: reopening keeps the old completion timestamp
mark_as_pending_keeps_completed_at(self) ==
    [self EXCEPT !.status = PENDING, !.updated_at = now]

mark_as_pending(self) ==
    [self EXCEPT !.status = PENDING, !.updated_at = now,
                 !.completed_at = NoTime]

change_priority(self, priority) ==
    [self EXCEPT !.priority = priority, !.updated_at = now]

assign_to_user(self, user_id) ==
    [self EXCEPT !.assigned_user_id = user_id, !.updated_at = now]

\* mutant: a description that is not given erases the stored one
update_details_erases_description(self, title, description, due_date) ==
    [self EXCEPT !.updated_at = now,
                 !.title = IF title # None THEN title ELSE @,
                 !.description = description,
                 !.due_date = IF due_date # NoTime THEN due_date ELSE @]

update_details(self, title, description, due_date) ==
    [self EXCEPT !.updated_at = now,
                 !.title = IF title # None THEN title ELSE @,
                 !.description = IF description # None THEN description ELSE @,
                 !.due_date = IF due_date # NoTime THEN due_date ELSE @]

is_completed(self) == self.status = COMPLETED

\* mutant: a task is overdue from its due date on
is_overdue_from_due_date(self) ==
    IF self.due_date = NoTime \/ is_completed(self)
    THEN FALSE
    ELSE now >= self.due_date

is_overdue(self) ==
    IF self.due_date = NoTime \/ is_completed(self)
    THEN FALSE
    ELSE now > self.due_date

(***************************************************************************)
(* The clock.                                                              *)
(***************************************************************************)
Tick(instants) ==
    /\ \E t \in instants :
          /\ t > now
          /\ now' = t
    /\ call' = [op |-> "tick"]
    /\ outcome' = Ok(NoResult)
    /\ invoked' = <<>>
    /\ UNCHANGED <<task, users, task_lists, tasks, requests>>

(***************************************************************************)
(* A caller holding one Task entity and applying its transition methods.   *)
(***************************************************************************)
EntityStep(op, result) ==
    /\ task' = result
    /\ call' = [op |-> op, self |-> task]
    /\ outcome' = Ok(result)
    /\ invoked' = <<>>
    /\ UNCHANGED <<now, users, task_lists, tasks, requests>>

MarkAsInProgress == EntityStep("mark_as_in_progress", mark_as_in_progress(task))
MarkAsCompleted == EntityStep("mark_as_completed", mark_as_completed(task))
MarkAsPending == EntityStep("mark_as_pending", mark_as_pending(task))
ChangePriority ==
    \E p \in TaskPriority : EntityStep("change_priority", change_priority(task, p))
AssignToUser ==
    \E u \in UserIds : EntityStep("assign_to_user", assign_to_user(task, u))
UpdateDetails ==
    \E t \in Titles \cup {None}, d \in {None, "d"}, due \in {NoTime, 1} :
        EntityStep("update_details", update_details(task, t, d, due))

(***************************************************************************)
(* User entity (app/domain/models/user.py).  A username is the sequence of *)
(* its characters; an email is an opaque validated address.                *)
(***************************************************************************)
Emails == {"e1", "e2"}
AlnumChars == {"a", "b", "c"}
WellFormedNames == {<<"a", "b", "c">>, <<"a", "_", "b">>}
MalformedNames == {<<"_", "a", "b">>, <<"a", "-", "b">>}

\* User(id=..., email=..., username=..., full_name=..., is_active=...)
NewUser(id, email, username, full_name, is_active) ==
    [id |-> id, email |-> email, username |-> username,
     full_name |-> full_name, is_active |-> is_active,
     created_at |-> now, updated_at |-> now, last_login |-> NoTime]

update_profile(self, username, full_name, email) ==
    [self EXCEPT !.updated_at = now,
                 !.username = IF username # NoneStr THEN username ELSE @,
                 !.full_name = IF full_name # None THEN full_name ELSE @,
                 !.email = IF email # None THEN email ELSE @]

(***************************************************************************)
(* UserRepositoryImpl over the "users" table and its constraints           *)
(* (app/infrastructure/repositories/user_repository_impl.py,               *)
(*  app/infrastructure/database/models/user.py).                           *)
(***************************************************************************)
Without(table, ids) == [k \in DOMAIN table \ ids |-> table[k]]

\* mutant: the table has no unique indexes
UsersConstraintsHold_primary_key_only(table) == TRUE

\* primary key on id, unique on email, unique on username
UsersConstraintsHold(table) ==
    \A a, b \in DOMAIN table :
        a # b => /\ table[a].email # table[b].email
                 /\ table[a].username # table[b].username

\* existing_user=None
NoUser == [absent |-> TRUE]

UserRepositoryImpl_get_by_id(user_id) ==
    Invoke("users", "get_by_id", <<user_id>>,
           IF user_id \in DOMAIN users
           THEN Ok(users[user_id])
           ELSE Raise("UserNotFoundError", user_id))

\* the abstract UserRepository.get_by_id: "User if found, None otherwise"
UserRepository_get_by_id(user_id) ==
    Invoke("users", "get_by_id", <<user_id>>,
           IF user_id \in DOMAIN users
           THEN Ok(users[user_id])
           ELSE Ok(NoUser))

UserRepositoryImpl_get_by_email(email) ==
    Invoke("users", "get_by_email", <<email>>,
           IF \E k \in DOMAIN users : users[k].email = email
           THEN Ok(users[CHOOSE k \in DOMAIN users : users[k].email = email])
           ELSE Raise("UserNotFoundError", email))

UserRepositoryImpl_get_by_username(username) ==
    Invoke("users", "get_by_username", <<username>>,
           IF \E k \in DOMAIN users : users[k].username = username
           THEN Ok(users[CHOOSE k \in DOMAIN users : users[k].username = username])
           ELSE Raise("UserNotFoundError", username))

\* the result carries the table as committed
UserRepositoryImpl_create(user) ==
    LET inserted == (user.id :> user) @@ users IN
    Invoke("users", "create", <<user.id>>,
           IF user.id \in DOMAIN users \/ ~UsersConstraintsHold(inserted)
           THEN Raise("IntegrityError", user.id)
           ELSE [exc |-> "ok", value |-> user, users |-> inserted])

\* is_dict: the caller passed a dict where the code reads the attributes of a User
UserRepositoryImpl_update(user_id, user, is_dict) ==
    Invoke("users", "update", <<user_id>>,
    IF user_id \notin DOMAIN users
    THEN Raise("UserNotFoundError", user_id)
    ELSE IF is_dict
    THEN Raise("AttributeError", "email")
    ELSE LET row == [users[user_id] EXCEPT
                        !.email = user.email, !.username = user.username,
                        !.full_name = user.full_name,
                        !.is_active = user.is_active,
                        !.updated_at = user.updated_at,
                        !.last_login = user.last_login]
             updated == [users EXCEPT ![user_id] = row]
         IN IF ~UsersConstraintsHold(updated)
            THEN Raise("IntegrityError", user_id)
            ELSE [exc |-> "ok", value |-> row, users |-> updated])

\* mutant: only the users row is removed; the task lists the user owns stay
UserRepositoryImpl_delete_keeps_lists(user_id) ==
    Invoke("users", "delete", <<user_id>>,
    IF user_id \notin DOMAIN users
    THEN Raise("UserNotFoundError", user_id)
    ELSE [exc |-> "ok", value |-> TRUE,
          users |-> Without(users, {user_id}),
          task_lists |-> task_lists,
          tasks |-> [t \in DOMAIN tasks |->
                       IF tasks[t].assigned_user_id = user_id
                       THEN [tasks[t] EXCEPT !.assigned_user_id = None,
                                             !.updated_at = now]
                       ELSE tasks[t]]])

\* session.delete(user_model) follows the relationships of UserModel: the
\* user's task lists go (cascade="all, delete-orphan") with their tasks
\* (TaskListModel.tasks, same cascade); tasks assigned to the user stay and
\* lose their assignee (assigned_tasks has no delete cascade), which also
\* triggers onupdate of tasks.updated_at.
UserRepositoryImpl_delete(user_id) ==
    Invoke("users", "delete", <<user_id>>,
    IF user_id \notin DOMAIN users
    THEN Raise("UserNotFoundError", user_id)
    ELSE LET gone_lists == {l \in DOMAIN task_lists :
                                task_lists[l].owner_id = user_id}
             gone_tasks == {t \in DOMAIN tasks :
                                tasks[t].task_list_id \in gone_lists}
             kept == Without(tasks, gone_tasks)
         IN [exc |-> "ok", value |-> TRUE,
             users |-> Without(users, {user_id}),
             task_lists |-> Without(task_lists, gone_lists),
             tasks |-> [t \in DOMAIN kept |->
                          IF kept[t].assigned_user_id = user_id
                          THEN [kept[t] EXCEPT !.assigned_user_id = None,
                                               !.updated_at = now]
                          ELSE kept[t]]])

(***************************************************************************)
(* UserDomainService (app/domain/services/user_domain_service.py).         *)
(***************************************************************************)
\* str.replace("_", "")
RemoveUnderscores(s) == SelectSeq(s, LAMBDA c : c # "_")

\* str.isalnum(): non-empty and every character alphanumeric
isalnum(s) == Len(s) > 0 /\ \A i \in 1..Len(s) : s[i] \in AlnumChars

\* str.startswith("_")
StartsWithUnderscore(s) == Len(s) > 0 /\ s[1] = "_"

\* str(uuid): the text of a UUID, which is not the UUID itself
UUIDStr(id) == <<"uuid", id>>

\* mutant: the holder blocks the name, excluded or not
HeldByAnother_ignores_exclusion(lookup, exclude_user_id) ==
    lookup.exc = "ok"

\* the existing holder blocks the name unless it is the excluded user;
\* exclude_user_id is an Optional[str] compared with str(existing_user.id)
HeldByAnother(lookup, exclude_user_id) ==
    /\ lookup.exc = "ok"
    /\ (exclude_user_id = NoneStr \/ UUIDStr(lookup.value.id) # exclude_user_id)

\* mutant: the repository is asked before the form of the name is checked
validate_username_availability_lookup_first(username, exclude_user_id) ==
    LET existing_user == UserRepositoryImpl_get_by_username(username) IN
    After(existing_user,
          IF username = NoneStr
          THEN Raise("TypeError", "len")
          ELSE IF Len(username) < 3
          THEN Ok(FALSE)
          ELSE IF ~isalnum(RemoveUnderscores(username)) \/ StartsWithUnderscore(username)
          THEN Ok(FALSE)
          ELSE IF HeldByAnother(existing_user, exclude_user_id)
          THEN Ok(FALSE)
          ELSE Ok(TRUE))

validate_username_availability(username, exclude_user_id) ==
    IF username = NoneStr
    THEN Raise("TypeError", "len")
    ELSE IF Len(username) < 3
    THEN Ok(FALSE)
    ELSE IF ~isalnum(RemoveUnderscores(username)) \/ StartsWithUnderscore(username)
    THEN Ok(FALSE)
    ELSE LET existing_user == UserRepositoryImpl_get_by_username(username) IN
         After(existing_user,
               IF HeldByAnother(existing_user, exclude_user_id)
               THEN Ok(FALSE)
               ELSE Ok(TRUE))

\* mutant: the email is never looked up
validate_email_availability_no_lookup(email, exclude_user_id) == Ok(TRUE)

validate_email_availability(email, exclude_user_id) ==
    LET existing_user == UserRepositoryImpl_get_by_email(email) IN
    After(existing_user,
          IF HeldByAnother(existing_user, exclude_user_id)
          THEN Ok(FALSE)
          ELSE Ok(TRUE))

(***************************************************************************)
(* UserValidationService                                                   *)
(* (app/application/services/user_validation_service.py).                  *)
(* existing_user is a User, or NoUser for existing_user=None.              *)
(***************************************************************************)
\* mutant: the email is looked up also when it is the user's own
UserValidationService_validate_email_availability_always_looks_up(email, existing_user) ==
    LET r == validate_email_availability(email, NoneStr) IN
    IF r.exc # "ok" THEN r
    ELSE IF ~r.value THEN After(r, Raise("UserAlreadyExistsError", "Email"))
    ELSE After(r, Ok(None))

UserValidationService_validate_email_availability(email, existing_user) ==
    IF existing_user # NoUser /\ email = existing_user.email
    THEN Ok(None)
    ELSE LET r == validate_email_availability(email, NoneStr) IN
         IF r.exc # "ok" THEN r
         ELSE IF ~r.value THEN After(r, Raise("UserAlreadyExistsError", "Email"))
         ELSE After(r, Ok(None))

UserValidationService_validate_username_availability(username, existing_user) ==
    IF existing_user # NoUser /\ username = existing_user.username
    THEN Ok(None)
    ELSE LET r == validate_username_availability(username, NoneStr) IN
         IF r.exc # "ok" THEN r
         ELSE IF ~r.value THEN After(r, Raise("UserAlreadyExistsError", "Username"))
         ELSE After(r, Ok(None))

validate_user_availability(user_data, existing_user) ==
    LET e == UserValidationService_validate_email_availability(
                 user_data.email, existing_user)
    IN IF e.exc # "ok" THEN e
       ELSE After(e, UserValidationService_validate_username_availability(
                         user_data.username, existing_user))

(***************************************************************************)
(* User use cases (app/application/use_cases/*_user.py).                   *)
(***************************************************************************)
\* the use case ends by raising: nothing was committed
Raises(c, r) ==
    /\ call' = c
    /\ outcome' = Raise(r.exc, r.arg)
    /\ invoked' = Calls(r)
    /\ UNCHANGED <<now, task, users, task_lists, tasks, requests>>

\* mutant: the user is stored before the availability checks run
CreateUser_stores_first(user_data) ==
    LET c == [op |-> "CreateUser", user_data |-> user_data]
        r == UserRepositoryImpl_create(user_data)
        v == After(r, validate_user_availability(user_data, NoUser))
    IN IF r.exc # "ok" THEN Raises(c, r)
       ELSE /\ users' = r.users
            /\ call' = c
            /\ outcome' = IF v.exc # "ok" THEN Raise(v.exc, v.arg) ELSE Ok(r.value)
            /\ invoked' = Calls(v)
            /\ UNCHANGED <<now, task, task_lists, tasks, requests>>

CreateUser(user_data) ==
    LET c == [op |-> "CreateUser", user_data |-> user_data]
        v == validate_user_availability(user_data, NoUser)
        r == After(v, UserRepositoryImpl_create(user_data))
    IN IF v.exc # "ok" THEN Raises(c, v)
       ELSE IF r.exc # "ok" THEN Raises(c, r)
       ELSE /\ users' = r.users
            /\ call' = c
            /\ outcome' = Ok(r.value)
            /\ invoked' = Calls(r)
            /\ UNCHANGED <<now, task, task_lists, tasks, requests>>

\* execute() after the fetch: existing_user is handed on as fetched, without
\* a test for None, so that None reaches the validation and then fails on
\* existing_user.update_profile
UpdateUser_execute(existing_user, user_id, user_data) ==
    LET c == [op |-> "UpdateUser", user_id |-> user_id, user_data |-> user_data]
    IN IF existing_user.exc # "ok" THEN Raises(c, existing_user)
       ELSE
       LET v == After(existing_user,
                      validate_user_availability(user_data, existing_user.value))
       IN IF v.exc # "ok" THEN Raises(c, v)
          ELSE IF existing_user.value = NoUser
          THEN Raises(c, After(v, Raise("AttributeError", "update_profile")))
          ELSE
          LET updated_user == update_profile(existing_user.value, user_data.username,
                                             user_data.full_name, user_data.email)
              r == After(v, UserRepositoryImpl_update(user_id, updated_user, FALSE))
          IN IF r.exc # "ok" THEN Raises(c, r)
             ELSE /\ users' = r.users
                  /\ call' = c
                  /\ outcome' = Ok(r.value)
                  /\ invoked' = Calls(r)
                  /\ UNCHANGED <<now, task, task_lists, tasks, requests>>

UpdateUser(user_id, user_data) ==
    UpdateUser_execute(UserRepositoryImpl_get_by_id(user_id), user_id, user_data)

\* UpdateUser over a repository that keeps the contract of
\* UserRepository.get_by_id
UpdateUserByContract(user_id, user_data) ==
    UpdateUser_execute(UserRepository_get_by_id(user_id), user_id, user_data)

DeleteUser(user_id) ==
    LET c == [op |-> "DeleteUser", user_id |-> user_id]
        existing_user == UserRepositoryImpl_get_by_id(user_id)
        r == After(existing_user, UserRepositoryImpl_delete(user_id))
    IN IF existing_user.exc # "ok" THEN Raises(c, existing_user)
       ELSE IF r.exc # "ok" THEN Raises(c, r)
       ELSE /\ users' = r.users
            /\ task_lists' = r.task_lists
            /\ tasks' = r.tasks
            /\ call' = c
            /\ outcome' = Ok(None)
            /\ invoked' = Calls(r)
            /\ UNCHANGED <<now, task, requests>>

\* ActivateUser / DeactivateUser hand the repository a dict {"is_active": ...}
SetUserActive(op, user_id, is_active) ==
    LET c == [op |-> op, user_id |-> user_id]
        existing_user == UserRepositoryImpl_get_by_id(user_id)
        r == After(existing_user,
                   UserRepositoryImpl_update(user_id, [is_active |-> is_active], TRUE))
    IN IF existing_user.exc # "ok" THEN Raises(c, existing_user)
       ELSE IF r.exc # "ok" THEN Raises(c, r)
       ELSE /\ users' = r.users
            /\ call' = c
            /\ outcome' = Ok(r.value)
            /\ invoked' = Calls(r)
            /\ UNCHANGED <<now, task, task_lists, tasks, requests>>

\* a caller asking the domain service about a username or an email
ValidateUsernameAvailability(username, exclude_user_id) ==
    LET r == validate_username_availability(username, exclude_user_id) IN
    /\ call' = [op |-> "validate_username_availability", username |-> username,
                exclude_user_id |-> exclude_user_id]
    /\ outcome' = Ok(r.value)
    /\ invoked' = Calls(r)
    /\ UNCHANGED <<now, task, users, task_lists, tasks, requests>>

ValidateEmailAvailability(email, exclude_user_id) ==
    LET r == validate_email_availability(email, exclude_user_id) IN
    /\ call' = [op |-> "validate_email_availability", email |-> email,
                exclude_user_id |-> exclude_user_id]
    /\ outcome' = Ok(r.value)
    /\ invoked' = Calls(r)
    /\ UNCHANGED <<now, task, users, task_lists, tasks, requests>>

\* a call of UserValidationService.validate_user_availability on its own
ValidateUserAvailability(user_data, existing_user) ==
    LET r == validate_user_availability(user_data, existing_user) IN
    /\ call' = [op |-> "validate_user_availability", user_data |-> user_data,
                existing_user |-> existing_user]
    /\ outcome' = IF r.exc = "ok" THEN Ok(r.value) ELSE Raise(r.exc, r.arg)
    /\ invoked' = Calls(r)
    /\ UNCHANGED <<now, task, users, task_lists, tasks, requests>>

ActivateUser(user_id) == SetUserActive("ActivateUser", user_id, TRUE)
DeactivateUser(user_id) == SetUserActive("DeactivateUser", user_id, FALSE)

(***************************************************************************)
(* TaskRepositoryImpl over the "tasks" table and its constraints           *)
(* (app/infrastructure/repositories/task_repository_impl.py,               *)
(*  app/infrastructure/database/models/task.py).                           *)
(***************************************************************************)
\* ForeignKey("task_lists.id") and ForeignKey("users.id") of one row
TaskForeignKeysHold(row) ==
    /\ row.task_list_id \in DOMAIN task_lists
    /\ row.assigned_user_id # None => row.assigned_user_id \in DOMAIN users

\* Optional[Task]: the value is NoTask when no row has that id
NoTask == [absent |-> TRUE]

TaskRepositoryImpl_get_by_id(task_id) ==
    Invoke("tasks", "get_by_id", <<task_id>>,
           IF task_id \in DOMAIN tasks THEN Ok(tasks[task_id]) ELSE Ok(NoTask))

TaskRepositoryImpl_create(t) ==
    Invoke("tasks", "create", <<t.id>>,
           IF t.id \in DOMAIN tasks \/ ~TaskForeignKeysHold(t)
           THEN Raise("IntegrityError", t.id)
           ELSE [exc |-> "ok", value |-> t, tasks |-> (t.id :> t) @@ tasks])

\* the row is found by the id of the entity; task_list_id and created_at
\* are not written
\* mutant: the status column is not written
TaskRepositoryImpl_update_keeps_status(t) ==
    Invoke("tasks", "update", <<t.id>>,
    IF t.id \notin DOMAIN tasks
    THEN Raise("TaskNotFoundError", t.id)
    ELSE LET row == [tasks[t.id] EXCEPT
                        !.title = t.title, !.description = t.description,
                        !.priority = t.priority,
                        !.assigned_user_id = t.assigned_user_id,
                        !.updated_at = t.updated_at,
                        !.due_date = t.due_date,
                        !.completed_at = t.completed_at]
         IN IF ~TaskForeignKeysHold(row)
            THEN Raise("IntegrityError", t.id)
            ELSE [exc |-> "ok", value |-> row,
                  tasks |-> [tasks EXCEPT ![t.id] = row]])

TaskRepositoryImpl_update(t) ==
    Invoke("tasks", "update", <<t.id>>,
    IF t.id \notin DOMAIN tasks
    THEN Raise("TaskNotFoundError", t.id)
    ELSE LET row == [tasks[t.id] EXCEPT
                        !.title = t.title, !.description = t.description,
                        !.status = t.status, !.priority = t.priority,
                        !.assigned_user_id = t.assigned_user_id,
                        !.updated_at = t.updated_at,
                        !.due_date = t.due_date,
                        !.completed_at = t.completed_at]
         IN IF ~TaskForeignKeysHold(row)
            THEN Raise("IntegrityError", t.id)
            ELSE [exc |-> "ok", value |-> row,
                  tasks |-> [tasks EXCEPT ![t.id] = row]])

TaskRepositoryImpl_delete(task_id) ==
    Invoke("tasks", "delete", <<task_id>>,
           IF task_id \notin DOMAIN tasks
           THEN [exc |-> "ok", value |-> FALSE, tasks |-> tasks]
           ELSE [exc |-> "ok", value |-> TRUE, tasks |-> Without(tasks, {task_id})])

\* the subsets of S with k elements
RECURSIVE KSubsets(_, _)
KSubsets(S, k) ==
    IF k = 0 THEN {{}}
    ELSE {T \cup {x} : T \in KSubsets(S, k - 1), x \in S} \ KSubsets(S, k - 1)

\* query.offset(0).limit(limit) without ORDER BY: which of the matching rows
\* come back is up to the database; every possible answer
Limited(matching, limit) ==
    IF Cardinality(matching) <= limit
    THEN {matching}
    ELSE {matching \ left : left \in KSubsets(matching, Cardinality(matching) - limit)}

DefaultLimit == 100

\* every possible result of get_by_task_list_id(task_list_id) with the
\* defaults status=None, priority=None, limit=100, skip=0
TaskRepositoryImpl_get_by_task_list_id(task_list_id) ==
    {Invoke("tasks", "get_by_task_list_id", <<task_list_id>>,
            Ok({tasks[k] : k \in ids})) :
        ids \in Limited({k \in DOMAIN tasks : tasks[k].task_list_id = task_list_id},
                        DefaultLimit)}

\* every possible result of get_by_assigned_user_id(user_id) with the
\* defaults status=None, limit=100, skip=0
TaskRepositoryImpl_get_by_assigned_user_id(user_id) ==
    {Invoke("tasks", "get_by_assigned_user_id", <<user_id>>,
            Ok({tasks[k] : k \in ids})) :
        ids \in Limited({k \in DOMAIN tasks : tasks[k].assigned_user_id = user_id},
                        DefaultLimit)}

(***************************************************************************)
(* TaskListRepositoryImpl over the "task_lists" table                      *)
(* (app/infrastructure/repositories/task_list_repository_impl.py,          *)
(*  app/infrastructure/database/models/task_list.py).                      *)
(***************************************************************************)
\* ForeignKey("users.id"), nullable
TaskListForeignKeyHolds(row) ==
    row.owner_id # None => row.owner_id \in DOMAIN users

\* TaskList(name=..., description=..., owner_id=...) with the field defaults
NewTaskList(id, name, description, owner_id) ==
    [id |-> id, name |-> name, description |-> description,
     owner_id |-> owner_id, created_at |-> now, updated_at |-> now,
     is_active |-> TRUE]

\* TaskList.update_details
TaskList_update_details(self, name, description) ==
    [self EXCEPT !.updated_at = now,
                 !.name = IF name # None THEN name ELSE @,
                 !.description = IF description # None THEN description ELSE @]

TaskListRepositoryImpl_exists(task_list_id) ==
    Invoke("task_lists", "exists", <<task_list_id>>,
           Ok(task_list_id \in DOMAIN task_lists))

\* create() has no return statement: the caller gets None
TaskListRepositoryImpl_create(tl) ==
    Invoke("task_lists", "create", <<tl.id>>,
           IF tl.id \in DOMAIN task_lists \/ ~TaskListForeignKeyHolds(tl)
           THEN Raise("IntegrityError", tl.id)
           ELSE [exc |-> "ok", value |-> None,
                 task_lists |-> (tl.id :> tl) @@ task_lists])

\* The fields are committed first; the row is then turned into a TaskList,
\* whose owner_id is a required UUID: for an ownerless row that construction
\* raises after the commit.
TaskListRepositoryImpl_update(task_list_id, tl) ==
    Invoke("task_lists", "update", <<task_list_id>>,
    IF task_list_id \notin DOMAIN task_lists
    THEN Raise("TaskListNotFoundError", task_list_id)
    ELSE LET row == [task_lists[task_list_id] EXCEPT
                        !.name = tl.name, !.description = tl.description,
                        !.is_active = tl.is_active,
                        !.updated_at = tl.updated_at,
                        !.owner_id = tl.owner_id]
             updated == [task_lists EXCEPT ![task_list_id] = row]
         IN IF ~TaskListForeignKeyHolds(row)
            THEN Raise("IntegrityError", task_list_id)
            ELSE IF row.owner_id = None
            THEN [exc |-> "ValidationError", arg |-> "owner_id",
                  task_lists |-> updated]
            ELSE [exc |-> "ok", value |-> row, task_lists |-> updated])

\* mutant: only the list is deleted
TaskListRepositoryImpl_delete_keeps_tasks(task_list_id) ==
    Invoke("task_lists", "delete", <<task_list_id>>,
    IF task_list_id \notin DOMAIN task_lists
    THEN [exc |-> "ok", value |-> FALSE,
          task_lists |-> task_lists, tasks |-> tasks]
    ELSE [exc |-> "ok", value |-> TRUE,
          task_lists |-> Without(task_lists, {task_list_id}),
          tasks |-> tasks])

\* the tasks of the list are deleted, then the list
TaskListRepositoryImpl_delete(task_list_id) ==
    Invoke("task_lists", "delete", <<task_list_id>>,
    IF task_list_id \notin DOMAIN task_lists
    THEN [exc |-> "ok", value |-> FALSE,
          task_lists |-> task_lists, tasks |-> tasks]
    ELSE [exc |-> "ok", value |-> TRUE,
          task_lists |-> Without(task_lists, {task_list_id}),
          tasks |-> Without(tasks, {t \in DOMAIN tasks :
                                      tasks[t].task_list_id = task_list_id})])

(***************************************************************************)
(* TaskDomainService (app/domain/services/task_domain_service.py).         *)
(***************************************************************************)
DeletionThresholdDays == 30
TaskNotFoundReason == "Task not found"
ArchivalReason ==
    "Completed tasks older than 30 days should be archived instead of deleted"
CanDeleteReason == "Task can be deleted"

\* timedelta.days: the whole days of a duration, rounded down
days(duration) == duration \div TicksPerDay

\* mutant: an inactive user passes
validate_task_assignment_ignores_is_active(task_id, assigned_user_id) ==
    IF assigned_user_id = None
    THEN Ok(TRUE)
    ELSE LET user == UserRepositoryImpl_get_by_id(assigned_user_id) IN
         IF user.exc # "ok" THEN user ELSE After(user, Ok(TRUE))

\* the lookup raises UserNotFoundError for an absent user
validate_task_assignment(task_id, assigned_user_id) ==
    IF assigned_user_id = None
    THEN Ok(TRUE)
    ELSE LET user == UserRepositoryImpl_get_by_id(assigned_user_id) IN
         IF user.exc # "ok" THEN user
         ELSE IF ~user.value.is_active THEN After(user, Ok(FALSE))
         ELSE After(user, Ok(TRUE))

\* the pair (can_delete, reason)
can_task_be_deleted(task_id) ==
    LET found == TaskRepositoryImpl_get_by_id(task_id)
        t == found.value
    IN After(found,
             IF t = NoTask
             THEN Ok(<<FALSE, TaskNotFoundReason>>)
             ELSE IF /\ t.status = COMPLETED
                     /\ t.completed_at # NoTime
                     /\ days(now - t.completed_at) > DeletionThresholdDays
             THEN Ok(<<FALSE, ArchivalReason>>)
             ELSE Ok(<<TRUE, CanDeleteReason>>))

\* A float that is a ratio of integers, as <<numerator, denominator>>.
Ratio(n, d) == <<n, d>>
SameRatio(a, b) == a[1] * b[2] = b[1] * a[2]

\* every possible result; (len(completed_tasks) / len(tasks)) * 100.0
calculate_task_completion_rate(task_list_id, user_id) ==
    LET Rate(found, rows) ==
            After(found,
                  IF rows = {}
                  THEN Ok(Ratio(0, 1))
                  ELSE Ok(Ratio(100 * Cardinality({t \in rows : t.status = COMPLETED}),
                                Cardinality(rows))))
    IN IF user_id # None
       THEN {Rate(all_tasks, {t \in all_tasks.value : t.task_list_id = task_list_id}) :
                all_tasks \in TaskRepositoryImpl_get_by_assigned_user_id(user_id)}
       ELSE {Rate(found, found.value) :
                found \in TaskRepositoryImpl_get_by_task_list_id(task_list_id)}

\* mutant: every task passes
validate_due_date_consistency_always(t) == TRUE

validate_due_date_consistency(t) ==
    IF t.status = COMPLETED /\ t.due_date # NoTime /\ t.completed_at # NoTime
    THEN t.completed_at <= t.due_date
    ELSE TRUE

(***************************************************************************)
(* TaskValidationService                                                   *)
(* (app/application/services/task_validation_service.py).                  *)
(***************************************************************************)
\* mutant: an invalid assignment is not turned into an exception
TaskValidationService_validate_task_assignment_no_raise(task_id, assigned_user_id) ==
    LET is_valid == validate_task_assignment(task_id, assigned_user_id) IN
    IF is_valid.exc # "ok" THEN is_valid ELSE After(is_valid, Ok(None))

TaskValidationService_validate_task_assignment(task_id, assigned_user_id) ==
    LET is_valid == validate_task_assignment(task_id, assigned_user_id) IN
    IF is_valid.exc # "ok" THEN is_valid
    ELSE IF ~is_valid.value /\ assigned_user_id # None
    THEN After(is_valid, Raise("UserNotFoundError", assigned_user_id))
    ELSE After(is_valid, Ok(None))

\* the check of the task list is commented out in the source
validate_task_creation(task_data) ==
    LET a == IF task_data.assigned_user_id # None
             THEN TaskValidationService_validate_task_assignment(
                      task_data.id, task_data.assigned_user_id)
             ELSE Ok(None)
    IN IF a.exc # "ok" THEN a
       ELSE IF ~validate_due_date_consistency(task_data)
       THEN After(a, Raise("ValueError", "Due date is inconsistent with task status"))
       ELSE After(a, Ok(None))

validate_task_update(task_id, task_data) ==
    LET a == IF task_data.assigned_user_id # None
             THEN TaskValidationService_validate_task_assignment(
                      task_id, task_data.assigned_user_id)
             ELSE Ok(None)
    IN IF a.exc # "ok" THEN a
       ELSE IF ~validate_due_date_consistency(task_data)
       THEN After(a, Raise("ValueError", "Due date is inconsistent with task status"))
       ELSE After(a, Ok(None))

validate_task_assignment_update(task_id, assigned_user_id) ==
    TaskValidationService_validate_task_assignment(task_id, assigned_user_id)

\* "not found" in reason.lower(): of the three reasons only the first has it
MentionsNotFound(reason) == reason = TaskNotFoundReason

validate_task_deletion(task_id) ==
    LET r == can_task_be_deleted(task_id) IN
    IF ~r.value[1]
    THEN IF MentionsNotFound(r.value[2])
         THEN After(r, Raise("TaskNotFoundError", task_id))
         ELSE After(r, Raise("ValueError", r.value[2]))
    ELSE After(r, Ok(None))

(***************************************************************************)
(* TaskListValidationService                                               *)
(* (app/application/services/task_list_validation_service.py).             *)
(***************************************************************************)
validate_task_list_exists(task_list_id) ==
    LET found == TaskListRepositoryImpl_exists(task_list_id) IN
    IF ~found.value
    THEN After(found, Raise("TaskListNotFoundError", task_list_id))
    ELSE After(found, Ok(None))

\* the lookup raises UserNotFoundError for an absent user
validate_owner_exists(owner_id) ==
    LET user == UserRepositoryImpl_get_by_id(owner_id) IN
    IF user.exc # "ok" THEN user ELSE After(user, Ok(None))

(***************************************************************************)
(* Task use cases (app/application/use_cases/*_task*.py).                  *)
(***************************************************************************)
\* the use case returns after its repository call committed the tasks table
CommitsTasks(c, r) ==
    /\ tasks' = r.tasks
    /\ call' = c
    /\ outcome' = Ok(r.value)
    /\ invoked' = Calls(r)
    /\ UNCHANGED <<now, task, users, task_lists, requests>>

CreateTask(task_data) ==
    LET c == [op |-> "CreateTask", task_data |-> task_data]
        v == validate_task_creation(task_data)
        r == After(v, TaskRepositoryImpl_create(task_data))
    IN IF v.exc # "ok" THEN Raises(c, v)
       ELSE IF r.exc # "ok" THEN Raises(c, r)
       ELSE CommitsTasks(c, r)

\* the repository is handed task_data alone: task_id only selects the task
\* whose existence is checked
UpdateTask(task_id, task_data) ==
    LET c == [op |-> "UpdateTask", task_id |-> task_id, task_data |-> task_data]
        found == TaskRepositoryImpl_get_by_id(task_id)
        existing_task == found.value
        v == After(found, validate_task_update(task_id, task_data))
        r == After(v, TaskRepositoryImpl_update(task_data))
    IN IF existing_task = NoTask
       THEN Raises(c, After(found, Raise("TaskNotFoundError", task_id)))
       ELSE IF v.exc # "ok" THEN Raises(c, v)
       ELSE IF r.exc # "ok" THEN Raises(c, r)
       ELSE CommitsTasks(c, r)

UpdateTaskStatus(task_id, new_status) ==
    LET c == [op |-> "UpdateTaskStatus", task_id |-> task_id,
              new_status |-> new_status]
        found == TaskRepositoryImpl_get_by_id(task_id)
        existing_task == found.value
        updated_task ==
            IF new_status = PENDING THEN mark_as_pending(existing_task)
            ELSE IF new_status = IN_PROGRESS THEN mark_as_in_progress(existing_task)
            ELSE mark_as_completed(existing_task)
        r == After(found, TaskRepositoryImpl_update(updated_task))
    IN IF existing_task = NoTask
       THEN Raises(c, After(found, Raise("TaskNotFoundError", task_id)))
       ELSE IF new_status \notin TaskStatus
       THEN Raises(c, After(found, Raise("ValueError", new_status)))
       ELSE IF r.exc # "ok" THEN Raises(c, r)
       ELSE CommitsTasks(c, r)

\* Task has no method unassign: unassigning raises AttributeError
UpdateTaskAssignment(task_id, assigned_user_id) ==
    LET c == [op |-> "UpdateTaskAssignment", task_id |-> task_id,
              assigned_user_id |-> assigned_user_id]
        found == TaskRepositoryImpl_get_by_id(task_id)
        existing_task == found.value
        v == After(found, validate_task_assignment_update(task_id, assigned_user_id))
        r == After(v, TaskRepositoryImpl_update(
                          assign_to_user(existing_task, assigned_user_id)))
    IN IF existing_task = NoTask
       THEN Raises(c, After(found, Raise("TaskNotFoundError", task_id)))
       ELSE IF v.exc # "ok" THEN Raises(c, v)
       ELSE IF assigned_user_id = None
       THEN Raises(c, After(v, Raise("AttributeError", "unassign")))
       ELSE IF r.exc # "ok" THEN Raises(c, r)
       ELSE CommitsTasks(c, r)

\* Task has no method update_priority (its method is change_priority)
UpdateTaskPriority(task_id, new_priority) ==
    LET c == [op |-> "UpdateTaskPriority", task_id |-> task_id,
              new_priority |-> new_priority]
        found == TaskRepositoryImpl_get_by_id(task_id)
        existing_task == found.value
    IN IF existing_task = NoTask
       THEN Raises(c, After(found, Raise("TaskNotFoundError", task_id)))
       ELSE IF new_priority \notin TaskPriority
       THEN Raises(c, After(found, Raise("ValueError", new_priority)))
       ELSE Raises(c, After(found, Raise("AttributeError", "update_priority")))

DeleteTask(task_id) ==
    LET c == [op |-> "DeleteTask", task_id |-> task_id]
        v == validate_task_deletion(task_id)
        r == After(v, TaskRepositoryImpl_delete(task_id))
    IN IF v.exc # "ok" THEN Raises(c, v)
       ELSE IF ~r.value THEN Raises(c, After(r, Raise("TaskNotFoundError", task_id)))
       ELSE CommitsTasks(c, [r EXCEPT !.value = None])

\* a caller asking the domain service whether a task may be deleted
CanTaskBeDeleted(task_id) ==
    LET r == can_task_be_deleted(task_id) IN
    /\ call' = [op |-> "can_task_be_deleted", task_id |-> task_id]
    /\ outcome' = Ok(r.value)
    /\ invoked' = Calls(r)
    /\ UNCHANGED <<now, task, users, task_lists, tasks, requests>>

\* a caller asking the domain service for a completion rate
CalculateTaskCompletionRate(task_list_id, user_id) ==
    \E r \in calculate_task_completion_rate(task_list_id, user_id) :
        /\ call' = [op |-> "calculate_task_completion_rate",
                    task_list_id |-> task_list_id, user_id |-> user_id]
        /\ outcome' = Ok(r.value)
        /\ invoked' = Calls(r)
        /\ UNCHANGED <<now, task, users, task_lists, tasks, requests>>

(***************************************************************************)
(* Task list use cases (app/application/use_cases/*_task_list.py).         *)
(***************************************************************************)
\* `"owner_id" in task_list_data` on a pydantic model: the model has no
\* __contains__, so the test runs over what iterating it yields, which are
\* (field name, value) pairs; the field name equals none of them.
PydanticModelContains(model, key) ==
    \E f \in DOMAIN model : <<f, model[f]>> = <<key>>

\* TaskList(**kwargs): owner_id is a required field of the entity
CreateTaskList(new_id, task_list_data) ==
    LET c == [op |-> "CreateTaskList", task_list_data |-> task_list_data]
        has_owner == PydanticModelContains(task_list_data, "owner_id")
        v == IF has_owner THEN validate_owner_exists(task_list_data.owner_id)
             ELSE Ok(None)
        r == After(v, TaskListRepositoryImpl_create(
                          NewTaskList(new_id, task_list_data.name,
                                      task_list_data.description,
                                      task_list_data.owner_id)))
    IN IF v.exc # "ok" THEN Raises(c, v)
       ELSE IF ~has_owner
       THEN Raises(c, After(v, Raise("ValidationError", "owner_id")))
       ELSE IF r.exc # "ok" THEN Raises(c, r)
       ELSE /\ task_lists' = r.task_lists
            /\ call' = c
            /\ outcome' = Ok(r.value)
            /\ invoked' = Calls(r)
            /\ UNCHANGED <<now, task, users, tasks, requests>>

\* what the repository committed stays committed when it raises afterwards
UpdateTaskList(task_list_id, task_list_data) ==
    LET c == [op |-> "UpdateTaskList", task_list_id |-> task_list_id,
              task_list_data |-> task_list_data]
        e == validate_task_list_exists(task_list_id)
        v == After(e, IF task_list_data.owner_id # None
                      THEN validate_owner_exists(task_list_data.owner_id)
                      ELSE Ok(None))
        r == After(v, TaskListRepositoryImpl_update(task_list_id, task_list_data))
    IN IF e.exc # "ok" THEN Raises(c, e)
       ELSE IF v.exc # "ok" THEN Raises(c, v)
       ELSE IF "task_lists" \notin DOMAIN r THEN Raises(c, r)
       ELSE /\ task_lists' = r.task_lists
            /\ call' = c
            /\ outcome' = IF r.exc = "ok" THEN Ok(r.value) ELSE Raise(r.exc, r.arg)
            /\ invoked' = Calls(r)
            /\ UNCHANGED <<now, task, users, tasks, requests>>

DeleteTaskList(task_list_id) ==
    LET c == [op |-> "DeleteTaskList", task_list_id |-> task_list_id]
        e == validate_task_list_exists(task_list_id)
        r == After(e, TaskListRepositoryImpl_delete(task_list_id))
    IN IF e.exc # "ok" THEN Raises(c, e)
       ELSE /\ task_lists' = r.task_lists
            /\ tasks' = r.tasks
            /\ call' = c
            /\ outcome' = Ok(None)
            /\ invoked' = Calls(r)
            /\ UNCHANGED <<now, task, users, requests>>

(***************************************************************************)
(* Paginated listings (app/application/use_cases/get_users.py,             *)
(* get_tasks.py).  A pagination object is its page and size; the items of  *)
(* a page are the set of rows the query returned.                          *)
(***************************************************************************)
NoneBool == {}            \* Optional[bool] = None; {b} is the bool b

\* PaginationParams.offset
PaginationParams_offset(pagination) == (pagination.page - 1) * pagination.size

\* query.offset(offset).limit(limit) without ORDER BY: every possible answer
Page(matching, offset, limit) ==
    LET left == IF Cardinality(matching) > offset
                THEN Cardinality(matching) - offset ELSE 0
    IN KSubsets(matching, IF limit < left THEN limit ELSE left)

\* column ILIKE '%term%'
ilike(column, term) ==
    \E i \in 0..(Len(column) - Len(term)) : SubSeq(column, i + 1, i + Len(term)) = term

\* every possible result of get_paginated; the count query runs first, and
\* PostgreSQL refuses a negative OFFSET or LIMIT.  Emails and full names hold
\* none of the characters searched for.
UserRepositoryImpl_get_paginated(offset, limit, filters) ==
    LET matching ==
            {k \in DOMAIN users :
                /\ filters.is_active # NoneBool => users[k].is_active \in filters.is_active
                /\ (filters.search # NoneStr /\ filters.search # <<>>) =>
                        ilike(users[k].username, filters.search)}
        total == Cardinality(matching)
    IN IF offset < 0 \/ limit < 0
       THEN {Invoke("users", "get_paginated", <<offset, limit, filters>>,
                    Raise("DBAPIError", <<offset, limit>>))}
       ELSE {Invoke("users", "get_paginated", <<offset, limit, filters>>,
                    Ok(<<{users[k] : k \in ids}, total>>)) :
                ids \in Page(matching, offset, limit)}

\* TaskRepository.get_paginated as the interface declares it: a page of the
\* tasks the filters select and their number
TaskRepository_get_paginated(offset, limit, filters) ==
    LET matching ==
            {k \in DOMAIN tasks :
                /\ tasks[k].task_list_id = filters.task_list_id
                /\ filters.status # None => tasks[k].status = filters.status}
        total == Cardinality(matching)
    IN {Invoke("tasks", "get_paginated", <<offset, limit, filters>>,
               Ok(<<{tasks[k] : k \in ids}, total>>)) :
           ids \in Page(matching, offset, limit)}

Returns(c, r) ==
    /\ call' = c
    /\ outcome' = IF r.exc = "ok" THEN Ok(r.value) ELSE Raise(r.exc, r.arg)
    /\ invoked' = Calls(r)
    /\ UNCHANGED <<now, task, users, task_lists, tasks, requests>>

GetUsers(pagination, filters) ==
    LET filter_criteria ==
            [search |-> IF filters.search # NoneStr /\ filters.search # <<>>
                        THEN filters.search ELSE NoneStr,
             is_active |-> filters.is_active]
    IN \E r \in UserRepositoryImpl_get_paginated(PaginationParams_offset(pagination),
                                                 pagination.size, filter_criteria) :
          Returns([op |-> "GetUsers", pagination |-> pagination, filters |-> filters], r)

GetTasks(pagination, filters) ==
    LET c == [op |-> "GetTasks", pagination |-> pagination, filters |-> filters] IN
    IF pagination.size <= 0
    THEN Returns(c, Raise("ValueError", "Page size must be greater than 0"))
    ELSE IF pagination.page < 1
    THEN Returns(c, Raise("ValueError", "Page number must be greater than 0"))
    ELSE \E r \in TaskRepository_get_paginated((pagination.page - 1) * pagination.size,
                                                pagination.size, filters) :
            Returns(c, r)

EmptyDb ==
    /\ users = <<>>
    /\ task_lists = <<>>
    /\ tasks = <<>>

\* A database that already holds one ownerless task list (owner_id is
\* nullable since migration cde2f8866870) and nothing else.
SeededDb ==
    /\ users = <<>>
    /\ task_lists = ("l1" :> NewTaskList("l1", "n", None, None))
    /\ tasks = <<>>

\* a caller outside the entity scenario holds no entity of interest
NoEntity == task = NewTask("t1", "a", "l1", NoTime)

(***************************************************************************)
(* Users: CreateUser, UpdateUser and DeleteUser run one at a time.         *)
(***************************************************************************)
UserInputs ==
    {NewUser(id, e, n, "n", a) :
        id \in UserIds, e \in Emails,
        n \in WellFormedNames \cup MalformedNames, a \in BOOLEAN}

UserUpdateInputs ==
    [email : Emails \cup {None},
     username : WellFormedNames \cup MalformedNames \cup {NoneStr},
     full_name : {None, "m"}]

InitUsers ==
    /\ now = 0
    /\ NoEntity
    /\ EmptyDb
    /\ call = [op |-> "init"]
    /\ outcome = Ok(NoResult)
    /\ invoked = <<>>
    /\ requests = <<>>

NextUsers ==
    \/ \E user_data \in UserInputs : CreateUser(user_data)
    \/ \E user_id \in UserIds, user_data \in UserUpdateInputs :
          UpdateUser(user_id, user_data)
    \/ \E user_id \in UserIds : DeleteUser(user_id)

\* the user use cases over a repository that answers get_by_id as the
\* abstract UserRepository documents it
NextContract ==
    \/ \E user_data \in UserInputs : CreateUser(user_data)
    \/ \E user_id \in UserIds, user_data \in UserUpdateInputs :
          UpdateUserByContract(user_id, user_data)
    \/ \E user_id \in UserIds : DeleteUser(user_id)

SpecContract == InitUsers /\ [][NextContract]_vars

SpecUsers == InitUsers /\ [][NextUsers]_vars

InitEntity ==
    /\ now = 0
    /\ \E t \in Titles, due \in {NoTime, 1} : task = NewTask("t1", t, "l1", due)
    /\ EmptyDb
    /\ call = [op |-> "init"]
    /\ outcome = Ok(NoResult)
    /\ invoked = <<>>
    /\ requests = <<>>

NextEntity ==
    \/ MarkAsInProgress
    \/ MarkAsCompleted
    \/ MarkAsPending
    \/ ChangePriority
    \/ AssignToUser
    \/ UpdateDetails
    \/ Tick(0..EntityHorizon)

SpecEntity == InitEntity /\ [][NextEntity]_vars

(***************************************************************************)
(* Store: users, task lists and tasks with their references, all use cases *)
(* run one at a time at one instant.                                       *)
(***************************************************************************)
StoreUserInputs ==
    {NewUser("u1", "e1", <<"a", "b", "c">>, "n", a) : a \in BOOLEAN}
    \cup {NewUser("u2", "e2", <<"a", "_", "b">>, "n", a) : a \in BOOLEAN}

StoreTaskInputs ==
    {[NewTask(id, "a", l, NoTime) EXCEPT !.assigned_user_id = u] :
        id \in TaskIds, l \in ListIds, u \in UserIds \cup {None}}

TaskListCreateInputs ==
    [name : {"n"}, description : {None}, owner_id : UserIds \cup {None}]

TaskListUpdateInputs ==
    [name : {"n"}, description : {None}, owner_id : UserIds \cup {None},
     is_active : {TRUE}, updated_at : {now}]

InitStore ==
    /\ now = 0
    /\ NoEntity
    /\ SeededDb
    /\ call = [op |-> "init"]
    /\ outcome = Ok(NoResult)
    /\ invoked = <<>>
    /\ requests = <<>>

NextStore ==
    \/ \E user_data \in StoreUserInputs : CreateUser(user_data)
    \/ \E user_id \in UserIds : ActivateUser(user_id)
    \/ \E user_id \in UserIds : DeactivateUser(user_id)
    \/ \E user_id \in UserIds : DeleteUser(user_id)
    \/ \E new_id \in ListIds \ DOMAIN task_lists,
          task_list_data \in TaskListCreateInputs :
          CreateTaskList(new_id, task_list_data)
    \/ \E task_list_id \in ListIds, task_list_data \in TaskListUpdateInputs :
          UpdateTaskList(task_list_id, task_list_data)
    \/ \E task_data \in StoreTaskInputs : CreateTask(task_data)
    \/ \E task_id \in TaskIds, task_data \in StoreTaskInputs :
          UpdateTask(task_id, task_data)
    \/ \E task_id \in TaskIds, assigned_user_id \in UserIds \cup {None} :
          UpdateTaskAssignment(task_id, assigned_user_id)

SpecStore == InitStore /\ [][NextStore]_vars

(***************************************************************************)
(* Availability: the domain service is asked about usernames and emails    *)
(* while users are created and deleted.                                    *)
(***************************************************************************)
ShortNames == {<<>>, <<"a", "b">>, <<"_", "a">>}

QueriedNames == WellFormedNames \cup MalformedNames \cup ShortNames

Exclusions == {NoneStr} \cup {UUIDStr(id) : id \in UserIds}

\* validate_user_availability called for new users (existing_user=None) and
\* for each stored user
ValidatedData ==
    [email : Emails, username : QueriedNames \cup {NoneStr}]

NextValidation ==
    \/ \E user_data \in StoreUserInputs : CreateUser(user_data)
    \/ \E user_id \in UserIds : DeleteUser(user_id)
    \/ \E user_data \in ValidatedData,
          existing_user \in {NoUser} \cup {users[k] : k \in DOMAIN users} :
          ValidateUserAvailability(user_data, existing_user)

SpecValidation == InitUsers /\ [][NextValidation]_vars

InitAvailability ==
    /\ now = 0
    /\ NoEntity
    /\ EmptyDb
    /\ call = [op |-> "init"]
    /\ outcome = Ok(NoResult)
    /\ invoked = <<>>
    /\ requests = <<>>

NextAvailability ==
    \/ \E user_data \in StoreUserInputs : CreateUser(user_data)
    \/ \E user_id \in UserIds : DeleteUser(user_id)
    \/ \E username \in QueriedNames, exclude_user_id \in Exclusions :
          ValidateUsernameAvailability(username, exclude_user_id)
    \/ \E email \in Emails, exclude_user_id \in Exclusions :
          ValidateEmailAvailability(email, exclude_user_id)

SpecAvailability == InitAvailability /\ [][NextAvailability]_vars

(***************************************************************************)
(* Updates: a caller applies update_details / update_profile to instances  *)
(* that were stamped by the clock at or before the instant of the call.    *)
(***************************************************************************)
Stamped(entity) ==
    {[entity EXCEPT !.created_at = cu[1], !.updated_at = cu[2]] :
        cu \in {p \in (0..now) \X (0..now) : p[1] <= p[2]}}

TaskInstances ==
    UNION {Stamped([NewTask("t1", "a", "l1", due) EXCEPT !.description = d, !.status = st]) :
              due \in {NoTime, 1}, d \in {None, "d"}, st \in {PENDING, IN_PROGRESS}}

TaskListInstances ==
    UNION {Stamped(NewTaskList("l1", "n", d, "u1")) : d \in {None, "d"}}

UserInstances ==
    UNION {Stamped(NewUser("u1", "e1", n, "n", a)) : n \in WellFormedNames, a \in BOOLEAN}

EntityCall(op, self, args, result) ==
    /\ call' = [op |-> op, self |-> self, args |-> args]
    /\ outcome' = Ok(result)
    /\ invoked' = <<>>
    /\ UNCHANGED <<now, task, users, task_lists, tasks, requests>>

TaskUpdateDetails ==
    \E self \in TaskInstances, title \in {None, "b"}, description \in {None, "e"},
       due_date \in {NoTime, 2} :
        EntityCall("Task.update_details", self,
                   [title |-> title, description |-> description, due_date |-> due_date],
                   update_details(self, title, description, due_date))

TaskListUpdateDetails ==
    \E self \in TaskListInstances, name \in {None, "m"}, description \in {None, "e"} :
        EntityCall("TaskList.update_details", self,
                   [name |-> name, description |-> description],
                   TaskList_update_details(self, name, description))

UserUpdateProfile ==
    \E self \in UserInstances, username \in WellFormedNames \cup {NoneStr},
       full_name \in {None, "m"}, email \in {None, "e2"} :
        EntityCall("User.update_profile", self,
                   [username |-> username, full_name |-> full_name, email |-> email],
                   update_profile(self, username, full_name, email))

InitUpdates ==
    /\ now = 0
    /\ NoEntity
    /\ EmptyDb
    /\ call = [op |-> "init"]
    /\ outcome = Ok(NoResult)
    /\ invoked = <<>>
    /\ requests = <<>>

NextUpdates ==
    \/ TaskUpdateDetails
    \/ TaskListUpdateDetails
    \/ UserUpdateProfile
    \/ Tick(0..EntityHorizon)

SpecUpdates == InitUpdates /\ [][NextUpdates]_vars

(***************************************************************************)
(* Listings: GetUsers and GetTasks are asked for pages of a database that  *)
(* holds some users and some tasks of one list.                            *)
(***************************************************************************)
Paginations == [page : 0..MaxPage, size : 0..MaxPage]

UserFilters == [search : {NoneStr, <<>>, <<"b">>}, is_active : {NoneBool, {TRUE}}]

TaskFilters == [task_list_id : ListIds, status : {None, PENDING}]

InitListings ==
    /\ now = 0
    /\ NoEntity
    /\ \E ids \in SUBSET UserIds :
          users = [id \in ids |->
                      NewUser(id, id, IF id = "u1" THEN <<"a", "b", "c">>
                                      ELSE <<"a", "_", "c">>, "n", id = "u1")]
    /\ task_lists = ("l1" :> NewTaskList("l1", "n", None, None))
    /\ \E ids \in SUBSET TaskIds :
          tasks = [id \in ids |->
                      [NewTask(id, "a", "l1", NoTime) EXCEPT
                          !.status = IF id = "t1" THEN PENDING ELSE IN_PROGRESS]]
    /\ call = [op |-> "init"]
    /\ outcome = Ok(NoResult)
    /\ invoked = <<>>
    /\ requests = <<>>

NextListings ==
    \/ \E pagination \in Paginations, filters \in UserFilters :
          GetUsers(pagination, filters)
    \/ \E pagination \in Paginations, filters \in TaskFilters :
          GetTasks(pagination, filters)

SpecListings == InitListings /\ [][NextListings]_vars

(***************************************************************************)
(* Completion rates: the domain service is asked for rates over a          *)
(* database that holds two users, two task lists and some tasks: a few     *)
(* tasks of any kind, or as many tasks of one list and one assignee as a   *)
(* query returns by default, and more.                                     *)
(***************************************************************************)
FewTasks == 2

RateTask(id, l, u, st) ==
    [NewTask(id, "a", l, NoTime) EXCEPT
        !.assigned_user_id = u, !.status = st,
        !.completed_at = IF st = COMPLETED THEN now ELSE NoTime]

FewTaskTables ==
    UNION {[1..n -> {RateTask(0, l, u, st) :
                        l \in ListIds, u \in {"u1", None},
                        st \in {PENDING, COMPLETED}}] : n \in 0..FewTasks}

ManyTaskTables ==
    {[i \in 1..n |-> RateTask(i, "l1", "u1",
                               IF i <= k THEN COMPLETED ELSE PENDING)] :
        n \in DefaultLimit..(DefaultLimit + OverLimit), k \in {0, 1, DefaultLimit}}

InitRates ==
    /\ now = 0
    /\ NoEntity
    /\ users = [id \in UserIds |->
                   NewUser(id, id, <<"a", "b", id>>, "n", TRUE)]
    /\ task_lists = [l \in ListIds |-> NewTaskList(l, "n", None, None)]
    /\ \/ \E table \in FewTaskTables :
             tasks = [i \in DOMAIN table |-> [table[i] EXCEPT !.id = i]]
       \/ tasks \in ManyTaskTables
    /\ call = [op |-> "init"]
    /\ outcome = Ok(NoResult)
    /\ invoked = <<>>
    /\ requests = <<>>

NextRates ==
    \E task_list_id \in ListIds, user_id \in UserIds \cup {None} :
        CalculateTaskCompletionRate(task_list_id, user_id)

SpecRates == InitRates /\ [][NextRates]_vars

(***************************************************************************)
(* Deletion: tasks are created, completed and deleted while the clock      *)
(* runs past the archival threshold.  The clock is read at the first       *)
(* instants of day 0 and of the threshold day.                             *)
(***************************************************************************)
ClockInstants ==
    {d * DeletionThresholdDays * TicksPerDay + k : d \in 0..1, k \in 0..TicksPerDay}

DeletionTaskInputs ==
    {[NewTask(id, "a", "l1", NoTime) EXCEPT !.status = sc[1], !.completed_at = sc[2]] :
        id \in TaskIds,
        sc \in {<<PENDING, NoTime>>, <<COMPLETED, NoTime>>, <<COMPLETED, now>>}}

InitDeletion ==
    /\ now = 0
    /\ NoEntity
    /\ SeededDb
    /\ call = [op |-> "init"]
    /\ outcome = Ok(NoResult)
    /\ invoked = <<>>
    /\ requests = <<>>

NextDeletion ==
    \/ \E task_data \in DeletionTaskInputs : CreateTask(task_data)
    \/ \E task_id \in TaskIds, new_status \in TaskStatus :
          UpdateTaskStatus(task_id, new_status)
    \/ \E task_id \in TaskIds : DeleteTask(task_id)
    \/ \E task_id \in TaskIds : CanTaskBeDeleted(task_id)
    \/ Tick(ClockInstants)

SpecDeletion == InitDeletion /\ [][NextDeletion]_vars

(***************************************************************************)
(* Task lists: tasks are created in two task lists, the lists are deleted  *)
(* and the clock runs past the archival threshold.                         *)
(***************************************************************************)
\* A database that already holds two ownerless task lists.
TwoListsDb ==
    /\ users = <<>>
    /\ task_lists = [l \in ListIds |-> NewTaskList(l, "n", None, None)]
    /\ tasks = <<>>

ListTaskInputs ==
    {[NewTask(id, "a", l, NoTime) EXCEPT !.status = sc[1], !.completed_at = sc[2]] :
        id \in TaskIds, l \in ListIds,
        sc \in {<<PENDING, NoTime>>, <<COMPLETED, now>>}}

ListInstants == {0, (DeletionThresholdDays + 1) * TicksPerDay}

InitLists ==
    /\ now = 0
    /\ NoEntity
    /\ TwoListsDb
    /\ call = [op |-> "init"]
    /\ outcome = Ok(NoResult)
    /\ invoked = <<>>
    /\ requests = <<>>

NextLists ==
    \/ \E task_data \in ListTaskInputs : CreateTask(task_data)
    \/ \E task_id \in TaskIds : DeleteTask(task_id)
    \/ \E task_list_id \in ListIds : DeleteTaskList(task_list_id)
    \/ Tick(ListInstants)

SpecLists == InitLists /\ [][NextLists]_vars

(***************************************************************************)
(* Concurrent requests.  Every await of a use case is a point at which the *)
(* event loop runs other requests, each with a session of its own.  A use  *)
(* case is split at the await between its validation (or its read) and its *)
(* repository write; each half runs its statements against the rows as     *)
(* committed at that moment (PostgreSQL, READ COMMITTED).  The write       *)
(* selects the row again and loads it anew, so that it overwrites every    *)
(* column in which the entity differs from the row as then stored.         *)
(***************************************************************************)
RequestIds == {"r1", "r2"}

\* the use case is suspended at the await before its write: held is the
\* entity it goes on with, r the validation that passed
Suspends(rid, c, held, r) ==
    /\ requests' = (rid :> [call |-> c, held |-> held, calls |-> Calls(r)]) @@ requests
    /\ call' = [op |-> "await", request |-> rid]
    /\ outcome' = Ok(NoResult)
    /\ invoked' = Calls(r)
    /\ UNCHANGED <<now, task, users, task_lists, tasks>>

\* the use case resumes with its write, whose result r ends it
Ends(rid, r) ==
    /\ requests' = Without(requests, {rid})
    /\ call' = requests[rid].call
    /\ outcome' = IF r.exc = "ok" THEN Ok(r.value) ELSE Raise(r.exc, r.arg)
    /\ invoked' = requests[rid].calls \o Calls(r)
    /\ users' = IF r.exc = "ok" /\ "users" \in DOMAIN r THEN r.users ELSE users
    /\ tasks' = IF r.exc = "ok" /\ "tasks" \in DOMAIN r THEN r.tasks ELSE tasks
    /\ UNCHANGED <<now, task, task_lists>>

Suspended(rid, op) == rid \in DOMAIN requests /\ requests[rid].call.op = op

CreateUser_validate(rid, user_data) ==
    /\ rid \notin DOMAIN requests
    /\ LET c == [op |-> "CreateUser", user_data |-> user_data]
           v == validate_user_availability(user_data, NoUser)
       IN IF v.exc # "ok" THEN Raises(c, v)
          ELSE Suspends(rid, c, user_data, v)

CreateUser_write(rid) ==
    /\ Suspended(rid, "CreateUser")
    /\ Ends(rid, UserRepositoryImpl_create(requests[rid].held))

UpdateUser_validate(rid, user_id, user_data) ==
    /\ rid \notin DOMAIN requests
    /\ LET c == [op |-> "UpdateUser", user_id |-> user_id, user_data |-> user_data]
           existing_user == UserRepositoryImpl_get_by_id(user_id)
       IN IF existing_user.exc # "ok" THEN Raises(c, existing_user)
          ELSE LET v == After(existing_user,
                              validate_user_availability(user_data, existing_user.value))
               IN IF v.exc # "ok" THEN Raises(c, v)
                  ELSE Suspends(rid, c, existing_user.value, v)

UpdateUser_write(rid) ==
    /\ Suspended(rid, "UpdateUser")
    /\ LET c == requests[rid].call
           updated_user == update_profile(requests[rid].held, c.user_data.username,
                                          c.user_data.full_name, c.user_data.email)
       IN Ends(rid, UserRepositoryImpl_update(c.user_id, updated_user, FALSE))

UpdateTaskStatus_read(rid, task_id, new_status) ==
    /\ rid \notin DOMAIN requests
    /\ LET c == [op |-> "UpdateTaskStatus", task_id |-> task_id,
                 new_status |-> new_status]
           found == TaskRepositoryImpl_get_by_id(task_id)
       IN IF found.value = NoTask
          THEN Raises(c, After(found, Raise("TaskNotFoundError", task_id)))
          ELSE Suspends(rid, c, found.value, found)

UpdateTaskStatus_write(rid) ==
    /\ Suspended(rid, "UpdateTaskStatus")
    /\ LET new_status == requests[rid].call.new_status
           existing_task == requests[rid].held
           updated_task ==
               IF new_status = PENDING THEN mark_as_pending(existing_task)
               ELSE IF new_status = IN_PROGRESS THEN mark_as_in_progress(existing_task)
               ELSE mark_as_completed(existing_task)
       IN Ends(rid, TaskRepositoryImpl_update(updated_task))

UpdateTaskAssignment_validate(rid, task_id, assigned_user_id) ==
    /\ rid \notin DOMAIN requests
    /\ LET c == [op |-> "UpdateTaskAssignment", task_id |-> task_id,
                 assigned_user_id |-> assigned_user_id]
           found == TaskRepositoryImpl_get_by_id(task_id)
           v == After(found, validate_task_assignment_update(task_id, assigned_user_id))
       IN IF found.value = NoTask
          THEN Raises(c, After(found, Raise("TaskNotFoundError", task_id)))
          ELSE IF v.exc # "ok" THEN Raises(c, v)
          ELSE Suspends(rid, c, found.value, v)

UpdateTaskAssignment_write(rid) ==
    /\ Suspended(rid, "UpdateTaskAssignment")
    /\ LET assigned_user_id == requests[rid].call.assigned_user_id IN
       IF assigned_user_id = None
       THEN Ends(rid, Raise("AttributeError", "unassign"))
       ELSE Ends(rid, TaskRepositoryImpl_update(
                          assign_to_user(requests[rid].held, assigned_user_id)))

(***************************************************************************)
(* Racing users: CreateUser and UpdateUser requests interleave at the      *)
(* await between validation and write.                                     *)
(***************************************************************************)
RacingUserInputs ==
    {NewUser("u1", "e1", <<"a", "b", "c">>, "n", TRUE),
     NewUser("u2", "e1", <<"a", "_", "b">>, "n", TRUE),
     NewUser("u2", "e2", <<"a", "b", "c">>, "n", TRUE)}

RacingUserUpdates ==
    {[email |-> "e1", username |-> <<"a", "b", "c">>, full_name |-> None],
     [email |-> "e2", username |-> <<"a", "_", "b">>, full_name |-> None]}

NextRacingUsers ==
    \/ \E rid \in RequestIds, user_data \in RacingUserInputs :
          CreateUser_validate(rid, user_data)
    \/ \E rid \in RequestIds : CreateUser_write(rid)
    \/ \E rid \in RequestIds, user_id \in UserIds, user_data \in RacingUserUpdates :
          UpdateUser_validate(rid, user_id, user_data)
    \/ \E rid \in RequestIds : UpdateUser_write(rid)

SpecRacingUsers == InitUsers /\ [][NextRacingUsers]_vars

(***************************************************************************)
(* Racing assignment: UpdateTaskAssignment requests are suspended between  *)
(* the assignee check and the write while users are deleted or             *)
(* deactivated.                                                            *)
(***************************************************************************)
\* A database left by CreateUser and CreateTask calls on the seeded one: two
\* active users and two unassigned tasks in the task list.  User ids are
\* uuid4 values, so a deleted user's id is not created again.
RacingAssignmentDb ==
    /\ users = ("u1" :> NewUser("u1", "e1", <<"a", "b", "c">>, "n", TRUE))
                  @@ ("u2" :> NewUser("u2", "e2", <<"a", "_", "b">>, "n", TRUE))
    /\ task_lists = ("l1" :> NewTaskList("l1", "n", None, None))
    /\ tasks = [t \in TaskIds |-> NewTask(t, "a", "l1", NoTime)]

InitRacingAssignment ==
    /\ now = 0
    /\ NoEntity
    /\ RacingAssignmentDb
    /\ call = [op |-> "init"]
    /\ outcome = Ok(NoResult)
    /\ invoked = <<>>
    /\ requests = <<>>

NextRacingAssignment ==
    \/ \E rid \in RequestIds, task_id \in TaskIds, assigned_user_id \in UserIds :
          UpdateTaskAssignment_validate(rid, task_id, assigned_user_id)
    \/ \E rid \in RequestIds : UpdateTaskAssignment_write(rid)
    \/ \E user_id \in UserIds : DeleteUser(user_id)
    \/ \E user_id \in UserIds : DeactivateUser(user_id)

SpecRacingAssignment == InitRacingAssignment /\ [][NextRacingAssignment]_vars

(***************************************************************************)
(* Racing updates of one task: UpdateTaskStatus and UpdateTaskAssignment   *)
(* requests interleave between reading the task and writing it back.       *)
(***************************************************************************)
NextRacingUpdates ==
    \/ \E rid \in RequestIds, new_status \in TaskStatus :
          UpdateTaskStatus_read(rid, "t1", new_status)
    \/ \E rid \in RequestIds : UpdateTaskStatus_write(rid)
    \/ \E rid \in RequestIds, assigned_user_id \in UserIds :
          UpdateTaskAssignment_validate(rid, "t1", assigned_user_id)
    \/ \E rid \in RequestIds : UpdateTaskAssignment_write(rid)

SpecRacingUpdates == InitRacingAssignment /\ [][NextRacingUpdates]_vars

(***************************************************************************)
(* Scenario: on an empty database a client creates a user, a task list     *)
(* owned by the user and a task in the list, assigns the task to the user  *)
(* and completes it, each call made once the one before has ended; then    *)
(* time passes and the client asks whether the task can be deleted.        *)
(***************************************************************************)
ScenarioUsers ==
    {NewUser(id, e, n, "n", TRUE) : id \in UserIds, e \in Emails, n \in WellFormedNames}

ScenarioTaskLists(owner_id) ==
    [name : {"n", "m"}, description : {None, "d"}, owner_id : {owner_id}]

InitScenario ==
    /\ now = 0
    /\ NoEntity
    /\ EmptyDb
    /\ call = [op |-> "init"]
    /\ outcome = Ok(NoResult)
    /\ invoked = <<>>
    /\ requests = <<>>

NextScenario ==
    \/ /\ call.op = "init"
       /\ \E user_data \in ScenarioUsers : CreateUser(user_data)
    \/ /\ call.op = "CreateUser"
       /\ \E task_list_data \in ScenarioTaskLists(call.user_data.id) :
             CreateTaskList("l1", task_list_data)
    \/ /\ call.op = "CreateTaskList"
       /\ \E title \in Titles : CreateTask(NewTask("t1", title, "l1", NoTime))
    \/ /\ call.op = "CreateTask"
       /\ \E user_id \in DOMAIN users : UpdateTaskAssignment("t1", user_id)
    \/ /\ call.op = "UpdateTaskAssignment"
       /\ UpdateTaskStatus("t1", COMPLETED)
    \/ /\ call.op \in {"UpdateTaskStatus", "can_task_be_deleted", "tick"}
       /\ CanTaskBeDeleted("t1")
    \/ /\ call.op \in {"UpdateTaskStatus", "can_task_be_deleted", "tick"}
       /\ Tick(ClockInstants)

SpecScenario == InitScenario /\ [][NextScenario]_vars

(***************************************************************************)
(* Mutations: the use cases that create, update and delete run one at a    *)
(* time on a database that holds one ownerless task list, before and after *)
(* the completed tasks have passed the deletion threshold.                 *)
(***************************************************************************)
MutationUserInputs ==
    {NewUser("u1", "e1", <<"a", "b", "c">>, "n", a) : a \in BOOLEAN}
    \cup {NewUser("u2", "e1", <<"a", "_", "b">>, "n", TRUE)}

MutationTaskInputs ==
    {[NewTask("t1", "a", l, NoTime) EXCEPT
         !.assigned_user_id = u, !.status = sc[1], !.completed_at = sc[2]] :
        l \in ListIds, u \in {None, "u1"},
        sc \in {<<PENDING, NoTime>>, <<COMPLETED, now>>}}

InitMutations ==
    /\ now = 0
    /\ NoEntity
    /\ SeededDb
    /\ call = [op |-> "init"]
    /\ outcome = Ok(NoResult)
    /\ invoked = <<>>
    /\ requests = <<>>

NextMutations ==
    \/ \E user_data \in MutationUserInputs : CreateUser(user_data)
    \/ \E task_data \in MutationTaskInputs : CreateTask(task_data)
    \/ \E task_id \in TaskIds, task_data \in MutationTaskInputs :
          UpdateTask(task_id, task_data)
    \/ \E task_id \in TaskIds : DeleteTask(task_id)
    \/ \E task_list_id \in ListIds, task_list_data \in TaskListUpdateInputs :
          UpdateTaskList(task_list_id, task_list_data)
    \/ \E task_list_id \in ListIds : DeleteTaskList(task_list_id)
    \/ Tick({(DeletionThresholdDays + 1) * TicksPerDay})

SpecMutations == InitMutations /\ [][NextMutations]_vars

(***************************************************************************)
(* Priorities: tasks of every priority are created, moved between statuses *)
(* and given new priorities.                                               *)
(***************************************************************************)
PriorityTaskInputs ==
    {[NewTask(id, "a", "l1", NoTime) EXCEPT !.priority = p] :
        id \in TaskIds, p \in TaskPriority}

InitPriority ==
    /\ now = 0
    /\ NoEntity
    /\ SeededDb
    /\ call = [op |-> "init"]
    /\ outcome = Ok(NoResult)
    /\ invoked = <<>>
    /\ requests = <<>>

NextPriority ==
    \/ \E task_data \in PriorityTaskInputs : CreateTask(task_data)
    \/ \E task_id \in TaskIds, new_status \in TaskStatus :
          UpdateTaskStatus(task_id, new_status)
    \/ \E task_id \in TaskIds, new_priority \in TaskPriority \cup {"urgent"} :
          UpdateTaskPriority(task_id, new_priority)

SpecPriority == InitPriority /\ [][NextPriority]_vars

(***************************************************************************)
(* Due dates: one task is created, updated and moved between statuses      *)
(* around its due date.                                                    *)
(***************************************************************************)
DueDate == 1

DueTaskInputs ==
    {[NewTask("t1", "a", "l1", due) EXCEPT !.status = sc[1], !.completed_at = sc[2]] :
        due \in {NoTime, DueDate},
        sc \in {<<PENDING, NoTime>>, <<COMPLETED, NoTime>>} \cup
               {<<COMPLETED, c>> : c \in 0..DueHorizon}}

InitDue ==
    /\ now = 0
    /\ NoEntity
    /\ SeededDb
    /\ call = [op |-> "init"]
    /\ outcome = Ok(NoResult)
    /\ invoked = <<>>
    /\ requests = <<>>

NextDue ==
    \/ \E task_data \in DueTaskInputs : CreateTask(task_data)
    \/ \E task_data \in DueTaskInputs : UpdateTask("t1", task_data)
    \/ \E new_status \in TaskStatus : UpdateTaskStatus("t1", new_status)
    \/ Tick(0..DueHorizon)

SpecDue == InitDue /\ [][NextDue]_vars

\* C1: a task that started as a new task and went through any sequence of its
\* transition methods has completed_at set if and only if its status is completed.
CompletedAtIffCompleted ==
    (task.completed_at # NoTime) <=> (task.status = COMPLETED)

\* Witness for C1: a task that was completed through a transition, after
\* other transitions have been applied to it.
CompletedAfterTransitions ==
    /\ task.status = COMPLETED
    /\ task.completed_at # NoTime
    /\ task.updated_at > task.completed_at
    /\ task.assigned_user_id # None

\* C9: whatever the status of the task it is called on, mark_as_completed gives
\* status completed with completed_at set, and mark_as_pending and
\* mark_as_in_progress give their status with completed_at cleared.
EveryTransitionPermitted ==
    /\ call.op = "mark_as_completed" =>
          /\ outcome.exc = "ok"
          /\ outcome.value.status = COMPLETED /\ outcome.value.completed_at # NoTime
    /\ call.op = "mark_as_pending" =>
          /\ outcome.exc = "ok"
          /\ outcome.value.status = PENDING /\ outcome.value.completed_at = NoTime
    /\ call.op = "mark_as_in_progress" =>
          /\ outcome.exc = "ok"
          /\ outcome.value.status = IN_PROGRESS /\ outcome.value.completed_at = NoTime

\* C2: with CreateUser, UpdateUser and DeleteUser run one at a time, no two
\* stored users share an email or a username, and a CreateUser whose email or
\* username a stored user already holds raises UserAlreadyExistsError and
\* leaves the users table as it was.
UsersStayUnique ==
    [][ /\ \A a, b \in DOMAIN users' :
              a # b => /\ users'[a].email # users'[b].email
                       /\ users'[a].username # users'[b].username
        /\ ( /\ call'.op = "CreateUser"
              /\ \E k \in DOMAIN users :
                    \/ users[k].email = call'.user_data.email
                    \/ users[k].username = call'.user_data.username )
           => /\ outcome'.exc = "UserAlreadyExistsError"
              /\ users' = users ]_vars

\* Witness for C2: with a user stored, CreateUser under another id but with
\* that user's email was just rejected.
DuplicateEmailRejected ==
    /\ call.op = "CreateUser"
    /\ outcome.exc = "UserAlreadyExistsError"
    /\ \E k \in DOMAIN users :
          /\ k # call.user_data.id
          /\ users[k].email = call.user_data.email
          /\ users[k].username # call.user_data.username

OlderThanThreshold(t) ==
    /\ t.status = COMPLETED
    /\ t.completed_at # NoTime
    /\ now - t.completed_at > DeletionThresholdDays * TicksPerDay

\* C4 as stated: can_task_be_deleted answers (False, "Task not found") for an
\* absent task, (False, archival reason) for a completed task whose
\* completed_at lies more than 30 days back, the elapsed time measured
\* exactly, and (True, "Task can be deleted") otherwise.
DeletableUnlessOlderThanThreshold ==
    call.op = "can_task_be_deleted" =>
        outcome.value =
            IF call.task_id \notin DOMAIN tasks
            THEN <<FALSE, TaskNotFoundReason>>
            ELSE IF OlderThanThreshold(tasks[call.task_id])
            THEN <<FALSE, ArchivalReason>>
            ELSE <<TRUE, CanDeleteReason>>

\* C5 as stated: DeleteTask raises TaskNotFoundError for an absent task and
\* ValueError with the archival reason for a task completed more than 30 days
\* ago, leaving the tasks table as it was; otherwise it removes exactly that
\* task.
DeleteTaskRefusesOlderThanThreshold ==
    [][ call'.op = "DeleteTask" =>
          IF call'.task_id \notin DOMAIN tasks
          THEN outcome'.exc = "TaskNotFoundError" /\ tasks' = tasks
          ELSE IF OlderThanThreshold(tasks[call'.task_id])
          THEN /\ outcome'.exc = "ValueError"
               /\ outcome'.arg = ArchivalReason
               /\ tasks' = tasks
          ELSE /\ outcome'.exc = "ok"
               /\ tasks' = Without(tasks, {call'.task_id}) ]_vars

\* completed with both dates set, and completed after the due date
CompletedLate(t) ==
    /\ t.status = COMPLETED
    /\ t.due_date # NoTime
    /\ t.completed_at # NoTime
    /\ t.completed_at > t.due_date

MissingTaskListReported ==
    (call.op = "CreateTask" /\ call.task_data.task_list_id \notin DOMAIN task_lists)
        => outcome.exc = "TaskListNotFoundError"

\* the user id names no stored user, or a stored user that is not active
Unassignable(user_id) ==
    user_id \notin DOMAIN users \/ ~users[user_id].is_active

OwnersExist ==
    \A l \in DOMAIN task_lists :
        task_lists[l].owner_id # None => task_lists[l].owner_id \in DOMAIN users

\* Witness for C10: a task list was given an owner and DeleteUser of that
\* owner has removed it.
OwnerDeletedWithLists ==
    /\ call.op = "DeleteUser"
    /\ outcome.exc = "ok"
    /\ "l1" \notin DOMAIN task_lists

\* a username of at least 3 characters, all alphanumerics or underscores, the
\* first not an underscore
WellFormed(username) ==
    /\ Len(username) >= 3
    /\ username[1] # "_"
    /\ \A i \in 1..Len(username) : username[i] \in AlnumChars \cup {"_"}

\* C11: validate_username_availability(username) returns False without any
\* repository lookup for a username that is too short, starts with an
\* underscore or has a character that is neither alphanumeric nor an
\* underscore; for a well-formed username it returns False exactly when a
\* stored user holds the username.
UsernameRulesBeforeLookup ==
    (call.op = "validate_username_availability" /\ call.exclude_user_id = NoneStr) =>
        IF WellFormed(call.username)
        THEN outcome.value =
                ~(\E k \in DOMAIN users : users[k].username = call.username)
        ELSE outcome.value = FALSE /\ invoked = <<>>

\* Witness for C11: with a user stored, a username with a character that is
\* not allowed was refused.
MalformedUsernameRefused ==
    /\ call.op = "validate_username_availability"
    /\ call.exclude_user_id = NoneStr
    /\ call.username = <<"a", "-", "b">>
    /\ users # <<>>
    /\ outcome.value = FALSE

MatchingTasks(task_list_id, user_id) ==
    {k \in DOMAIN tasks :
        /\ tasks[k].task_list_id = task_list_id
        /\ user_id # None => tasks[k].assigned_user_id = user_id}

\* C13 as stated: calculate_task_completion_rate returns 0.0 when no task
\* matches and otherwise 100 x completed matching tasks / matching tasks, a
\* value between 0 and 100, the matching tasks being all tasks of the list
\* or, with user_id given, all tasks of the list assigned to that user.
RateOverAllMatchingTasks ==
    call.op = "calculate_task_completion_rate" =>
        LET matching == MatchingTasks(call.task_list_id, call.user_id)
            completed == {k \in matching : tasks[k].status = COMPLETED}
        IN /\ 0 <= outcome.value[1]
           /\ outcome.value[1] <= 100 * outcome.value[2]
           /\ IF matching = {}
              THEN SameRatio(outcome.value, Ratio(0, 1))
              ELSE SameRatio(outcome.value,
                             Ratio(100 * Cardinality(completed), Cardinality(matching)))

\* C14: is_completed is true exactly when the status is completed; is_overdue
\* is true exactly when a due date is set, it is strictly earlier than the
\* current time and the task is not completed; a completed task is never
\* overdue.
OverdueIffPastDueAndOpen ==
    /\ is_completed(task) <=> task.status = COMPLETED
    /\ is_overdue(task) <=>
          (task.due_date # NoTime /\ task.due_date < now /\ task.status # COMPLETED)
    /\ task.status = COMPLETED => ~is_overdue(task)

\* Witness for C14: a task in progress is read after its due date and is
\* overdue.
OpenTaskReadPastDue ==
    /\ task.status = IN_PROGRESS
    /\ task.due_date # NoTime
    /\ now > task.due_date
    /\ is_overdue(task)

UpdateOps == {"Task.update_details", "TaskList.update_details", "User.update_profile"}

\* the names of the arguments of the last update call that were not None
Given ==
    IF call.op = "User.update_profile"
    THEN {f \in {"full_name", "email"} : call.args[f] # None} \cup
         (IF call.args.username # NoneStr THEN {"username"} ELSE {})
    ELSE {f \in DOMAIN call.args \ {"due_date"} : call.args[f] # None} \cup
         (IF call.op = "Task.update_details" /\ call.args.due_date # NoTime
          THEN {"due_date"} ELSE {})

\* every field but updated_at that was not given a value is the original's
\* (id and created_at can not be given): the result of a call without
\* arguments equals the original except for updated_at
FieldsNotGivenAreKept ==
    /\ DOMAIN outcome.value = DOMAIN call.self
    /\ \A f \in DOMAIN call.self \ ({"updated_at"} \cup Given) :
          outcome.value[f] = call.self[f]
    /\ \A f \in Given : outcome.value[f] = call.args[f]

PagesCheckedBeforeQuery ==
    call.op \in {"GetUsers", "GetTasks"} =>
        IF call.pagination.page < 1 \/ call.pagination.size <= 0
        THEN outcome.exc = "ValueError" /\ invoked = <<>>
        ELSE /\ Len(invoked) = 1
             /\ invoked[1].method = "get_paginated"
             /\ invoked[1].args[1] = (call.pagination.page - 1) * call.pagination.size
             /\ invoked[1].args[2] = call.pagination.size
             /\ outcome.exc = "ok"
             /\ outcome.value \in
                   {r.value : r \in
                       IF call.op = "GetUsers"
                       THEN UserRepositoryImpl_get_paginated(
                                invoked[1].args[1], invoked[1].args[2], invoked[1].args[3])
                       ELSE TaskRepository_get_paginated(
                                invoked[1].args[1], invoked[1].args[2], invoked[1].args[3])}

\* C17 as stated: CreateUser(U), CreateTaskList(L, owner_id = U.id),
\* CreateTask(T in L, unassigned), UpdateTaskAssignment(T, U) and
\* UpdateTaskStatus(T, completed), run in this order, all succeed;
\* can_task_be_deleted(T.id) then answers (True, "Task can be deleted") at
\* once and (False, archival reason) once completed_at is more than 30 days
\* in the past.
ScenarioRunsToCompletion ==
    /\ call.op \in {"CreateUser", "CreateTaskList", "CreateTask",
                     "UpdateTaskAssignment", "UpdateTaskStatus"} => outcome.exc = "ok"
    /\ call.op = "can_task_be_deleted" =>
          /\ call.task_id \in DOMAIN tasks
          /\ now = tasks[call.task_id].completed_at =>
                outcome.value = <<TRUE, CanDeleteReason>>
          /\ OlderThanThreshold(tasks[call.task_id]) =>
                outcome.value = <<FALSE, ArchivalReason>>

\* the places in a log of repository calls where a mutation was invoked
Mutations(log) ==
    {i \in 1..Len(log) : log[i].method \in {"create", "update", "delete"}}

\* C18: in CreateTask, UpdateTask, DeleteTask, CreateUser, UpdateTaskList and
\* DeleteTaskList the repository mutation is invoked at most once and after
\* every call of the fetch and validation step; when the fetch finds nothing
\* or the validation raises, the exception is the outcome of the use case and
\* no mutation is invoked, so nothing stored changes.
MutationOnlyAfterValidation ==
    [][ call'.op \in {"CreateTask", "UpdateTask", "DeleteTask", "CreateUser",
                      "UpdateTaskList", "DeleteTaskList"} =>
          /\ Cardinality(Mutations(invoked')) <= 1
          /\ \A i \in Mutations(invoked') : i = Len(invoked')
          /\ (call'.op \in {"UpdateTask", "DeleteTask"}
                /\ call'.task_id \notin DOMAIN tasks) =>
                   outcome'.exc = "TaskNotFoundError" /\ Mutations(invoked') = {}
          /\ (call'.op \in {"UpdateTaskList", "DeleteTaskList"}
                /\ call'.task_list_id \notin DOMAIN task_lists) =>
                   outcome'.exc = "TaskListNotFoundError" /\ Mutations(invoked') = {}
          /\ outcome'.exc # "ok" =>
                \/ Mutations(invoked') = {}
                \/ invoked'[Len(invoked')].exc = outcome'.exc
          /\ Mutations(invoked') = {} =>
                /\ outcome'.exc # "ok"
                /\ UNCHANGED <<users, task_lists, tasks>> ]_vars

\* Witness for C18: the validation of CreateTask looked the assignee up,
\* found the user inactive and raised, and no mutation was invoked.
ValidationRaisedBeforeMutation ==
    /\ call.op = "CreateTask"
    /\ outcome.exc = "UserNotFoundError"
    /\ call.task_data.assigned_user_id \in DOMAIN users
    /\ invoked # <<>>
    /\ Mutations(invoked) = {}

\* C19: UpdateTaskStatus on an existing task persists and returns exactly
\* the task the matching mark_as_* method produces from the stored task: the
\* status is the new one, completed_at is the instant of the call for
\* completed and absent otherwise, and title, description, priority,
\* task_list_id, assigned_user_id, due_date and created_at are unchanged; on
\* a missing task it raises TaskNotFoundError and updates nothing.
StatusChangePersistsTransition ==
    [][ call'.op = "UpdateTaskStatus" =>
          IF call'.task_id \in DOMAIN tasks
          THEN LET stored == tasks[call'.task_id]
                   produced ==
                       CASE call'.new_status = PENDING -> mark_as_pending(stored)
                         [] call'.new_status = IN_PROGRESS -> mark_as_in_progress(stored)
                         [] call'.new_status = COMPLETED -> mark_as_completed(stored)
               IN /\ outcome' = Ok(produced)
                  /\ tasks' = [tasks EXCEPT ![call'.task_id] = produced]
                  /\ produced.status = call'.new_status
                  /\ produced.completed_at =
                        IF call'.new_status = COMPLETED THEN now ELSE NoTime
                  /\ \A f \in {"id", "title", "description", "priority", "task_list_id",
                                 "assigned_user_id", "due_date", "created_at"} :
                        tasks'[call'.task_id][f] = stored[f]
          ELSE /\ outcome'.exc = "TaskNotFoundError"
               /\ tasks' = tasks
               /\ Mutations(invoked') = {} ]_vars

\* Witness for C19: UpdateTaskStatus stored the completion of a task that
\* had a due date, after the clock had advanced.
StatusChangeStored ==
    /\ call.op = "UpdateTaskStatus"
    /\ call.new_status = COMPLETED
    /\ outcome.exc = "ok"
    /\ now > 0
    /\ tasks[call.task_id].completed_at = now
    /\ tasks[call.task_id].due_date # NoTime
    /\ tasks[call.task_id].created_at < now

\* C20 as stated: UpdateTaskPriority on an existing task returns and persists,
\* for each priority, a task whose priority is the new one and whose other
\* fields but updated_at are unchanged; on a missing task it raises
\* TaskNotFoundError and updates nothing.
PriorityChangePersisted ==
    [][ (call'.op = "UpdateTaskPriority" /\ call'.new_priority \in TaskPriority) =>
          IF call'.task_id \in DOMAIN tasks
          THEN /\ outcome'.exc = "ok"
               /\ outcome'.value.priority = call'.new_priority
               /\ tasks' = [tasks EXCEPT ![call'.task_id] = outcome'.value]
               /\ \A f \in DOMAIN tasks[call'.task_id] \ {"priority", "updated_at"} :
                     outcome'.value[f] = tasks[call'.task_id][f]
          ELSE /\ outcome'.exc = "TaskNotFoundError"
               /\ tasks' = tasks ]_vars


\* C21 as stated: UpdateTaskAssignment(task_id, None) on an existing task
\* succeeds without consulting the user repository and persists the task
\* with assigned_user_id null and all other data fields unchanged.
UnassignmentPersisted ==
    [][ ( /\ call'.op = "UpdateTaskAssignment"
          /\ call'.assigned_user_id = None
          /\ call'.task_id \in DOMAIN tasks ) =>
            /\ outcome'.exc = "ok"
            /\ \A i \in 1..Len(invoked') : invoked'[i].repo # "users"
            /\ tasks' = [tasks EXCEPT ![call'.task_id] =
                            [@ EXCEPT !.assigned_user_id = None,
                                      !.updated_at = tasks'[call'.task_id].updated_at]] ]_vars


\* C22 as stated: CreateTaskList called with an owner_id raises
\* UserNotFoundError and stores no task list when no user has that id, and
\* stores a task list carrying that owner_id when the owner exists.
OwnerValidatedBeforeCreate ==
    [][ (call'.op = "CreateTaskList" /\ call'.task_list_data.owner_id # None) =>
          IF call'.task_list_data.owner_id \notin DOMAIN users
          THEN outcome'.exc = "UserNotFoundError" /\ task_lists' = task_lists
          ELSE /\ outcome'.exc = "ok"
               /\ \E l \in DOMAIN task_lists' \ DOMAIN task_lists :
                     task_lists'[l].owner_id = call'.task_list_data.owner_id ]_vars

\* C23 as stated: UpdateUser on a user id that is not stored, the repository's
\* get_by_id returning None, raises UserNotFoundError and does not call the
\* repository's update.
UpdateOfAbsentUserRaisesNotFound ==
    [][ (call'.op = "UpdateUser" /\ call'.user_id \notin DOMAIN users) =>
          /\ outcome'.exc = "UserNotFoundError"
          /\ \A i \in 1..Len(invoked') : invoked'[i].method # "update" ]_vars

\* C24: validate_user_availability(user_data, existing_user) makes no
\* availability lookup for an email or username equal to existing_user's
\* current value; for one that is new or changed it raises
\* UserAlreadyExistsError naming the field when the domain service reports it
\* unavailable and returns normally when both are reported available; the
\* email is checked before the username.
LookedUp(method) == \E i \in 1..Len(invoked) : invoked[i].method = method

OwnEmail ==
    call.existing_user # NoUser /\ call.user_data.email = call.existing_user.email

OwnUsername ==
    /\ call.existing_user # NoUser
    /\ call.user_data.username = call.existing_user.username

EmailReport == validate_email_availability(call.user_data.email, NoneStr)

UsernameReport == validate_username_availability(call.user_data.username, NoneStr)

DeleteTaskListRemovesListAndItsTasksOnly ==
    [][ call'.op = "DeleteTaskList" =>
          LET l == call'.task_list_id IN
          IF l \in DOMAIN task_lists
          THEN /\ outcome'.exc = "ok"
               /\ l \notin DOMAIN task_lists'
               /\ \A t \in DOMAIN tasks' : tasks'[t].task_list_id # l
               /\ \A k \in DOMAIN task_lists \ {l} :
                     k \in DOMAIN task_lists' /\ task_lists'[k] = task_lists[k]
               /\ \A t \in DOMAIN tasks :
                     tasks[t].task_list_id # l =>
                        t \in DOMAIN tasks' /\ tasks'[t] = tasks[t]
               /\ DOMAIN task_lists' \subseteq DOMAIN task_lists
               /\ DOMAIN tasks' \subseteq DOMAIN tasks
          ELSE /\ outcome'.exc = "TaskListNotFoundError"
               /\ task_lists' = task_lists
               /\ tasks' = tasks ]_vars

\* Witness for C25: a task list has been deleted while the other list and a
\* task of the other list are still stored
ListDeletedOtherListKept ==
    /\ call.op = "DeleteTaskList"
    /\ outcome.exc = "ok"
    /\ call.task_list_id \notin DOMAIN task_lists
    /\ task_lists # <<>>
    /\ tasks # <<>>

\* C26 as stated: a completed task with completed_at more than 30 days in the
\* past is never removed from storage by a use case: neither DeleteTask nor
\* DeleteTaskList on its task list removes it.
ArchivableTasks ==
    {t \in DOMAIN tasks :
        /\ tasks[t].status = COMPLETED
        /\ tasks[t].completed_at # NoTime
        /\ now - tasks[t].completed_at > DeletionThresholdDays * TicksPerDay}

ArchivableTasksStayStored ==
    [][ ArchivableTasks \subseteq DOMAIN tasks' ]_vars

\* C27: under any interleaving of CreateUser and UpdateUser requests whose
\* availability validation and repository write are separate steps, no two
\* stored users share an email and no two share a username.
RacingWritesKeepUsersUnique ==
    /\ Cardinality({users[k].email : k \in DOMAIN users}) = Cardinality(DOMAIN users)
    /\ Cardinality({users[k].username : k \in DOMAIN users}) = Cardinality(DOMAIN users)

\* Witness for C27: a CreateUser request whose validation found the email
\* free is refused at its write, another request having stored the email in
\* between
ValidatedEmailTakenBeforeWrite ==
    /\ call.op = "CreateUser"
    /\ outcome.exc = "IntegrityError"
    /\ call.user_data.id \notin DOMAIN users
    /\ \E k \in DOMAIN users : users[k].email = call.user_data.email
    /\ \E i \in 1..Len(invoked) :
          invoked[i].method = "get_by_email" /\ invoked[i].exc = "UserNotFoundError"

\* C28 as stated: when UpdateTaskAssignment(t, u) has validated u as existing
\* and active, and DeleteUser(u) or DeactivateUser(u) has completed before its
\* write, the write persists t with assigned_user_id = u, which leaves a
\* stored task assigned to an absent or inactive user.
AssigneeGone(rid) ==
    LET u == requests[rid].call.assigned_user_id IN
    u \notin DOMAIN users \/ ~users[u].is_active

WriteAfterAssigneeGonePersists ==
    [][ \A rid \in RequestIds :
          ( /\ Suspended(rid, "UpdateTaskAssignment")
            /\ rid \notin DOMAIN requests'
            /\ AssigneeGone(rid) ) =>
                /\ outcome'.exc = "ok"
                /\ tasks'[requests[rid].call.task_id].assigned_user_id =
                      requests[rid].call.assigned_user_id ]_vars

\* the state C28 says the race leaves behind does not occur
EveryStoredAssigneeIsStoredAndActive ==
    \A t \in DOMAIN tasks :
        tasks[t].assigned_user_id # None =>
            /\ tasks[t].assigned_user_id \in DOMAIN users
            /\ users[tasks[t].assigned_user_id].is_active

\* C29 as stated: when UpdateTaskStatus(t, s) and UpdateTaskAssignment(t, u)
\* run concurrently, each reading the task and later writing it back, and
\* both return successfully, the stored task has status s and
\* assigned_user_id u: the write of the one stores its own change and leaves
\* the other's field as it finds it.
NeitherUpdateOverwritesTheOther ==
    [][ \A rid \in DOMAIN requests :
          (rid \notin DOMAIN requests' /\ outcome'.exc = "ok") =>
             LET c == requests[rid].call
                 t == c.task_id
             IN /\ c.op = "UpdateTaskStatus" =>
                      /\ tasks'[t].status = c.new_status
                      /\ tasks'[t].assigned_user_id = tasks[t].assigned_user_id
                /\ c.op = "UpdateTaskAssignment" =>
                      /\ tasks'[t].assigned_user_id = c.assigned_user_id
                      /\ tasks'[t].status = tasks[t].status ]_vars

\* C30 as stated: UpdateTask(task_id, task_data) changes only the stored task
\* whose id is task_id: when it succeeds that task carries the data of
\* task_data and no other stored task is modified, also when task_data.id
\* differs from task_id.
TaskDataFields ==
    {"title", "description", "status", "priority", "assigned_user_id",
     "due_date", "completed_at"}

UpdateTaskChangesOnlyTheNamedTask ==
    [][ (call'.op = "UpdateTask" /\ outcome'.exc = "ok") =>
          /\ DOMAIN tasks' = DOMAIN tasks
          /\ \A k \in DOMAIN tasks \ {call'.task_id} : tasks'[k] = tasks[k]
          /\ \A f \in TaskDataFields :
                tasks'[call'.task_id][f] = call'.task_data[f] ]_vars

\* Witness for C9: a completed task has been reopened by mark_as_pending.
CompletedTaskReopened ==
    /\ call.op = "mark_as_pending"
    /\ call.self.status = COMPLETED
    /\ outcome.value.status = PENDING
    /\ outcome.value.completed_at = NoTime
====
